---- MODULE Spec2Model ----
(***************************************************************************)
(* The rate-limit-aware endpoint accessor of twitter_crawler.py            *)
(* (class RateLimitedTwitterEndpoint) and the crawler methods built on it. *)
(*                                                                         *)
(* One thread of control runs the program.  pc is its position inside      *)
(* get_data / _get_data_with_backoff / _sleep_if_rate_limit_reached; every *)
(* blocking sleep and every request to the API is a step of its own, so    *)
(* that the order of sleeps, refreshes and requests is part of a           *)
(* behaviour.  The API is the environment: each response, each status      *)
(* report and each error is chosen nondeterministically.                   *)
(***************************************************************************)
EXTENDS Integers, Sequences, FiniteSets, TLC

---------------------------------------------------------------------------
(* Bounds of the model *)

\* The clock stops the model here: no sleep ends later than MaxTime.
MaxTime == 480
\* Largest 'remaining' the status endpoint reports.
MaxRemaining == 2
\* Retries (recursive calls of _get_data_with_backoff) within one get_data.
MaxRetries == 3
\* Pages one paginated crawl fetches before the model stops following it.
MaxPages == 2

\* Id of the newest tweet the API holds.
NewestId == 1000
\* get_data calls one paginated crawl is followed for.
MaxRequests == 3

\* Earlier runs of a batch driver over one set of files.
MaxRuns == 2
\* Tweets in one call of a send method of TrawlerKafka.
MaxTweets == 2
\* Calls of the send methods.
MaxSends == 2
\* Turns of the while loop of a search crawl
MaxIterations == 100

\* Seconds that can pass between two calls of the crawler.
TickSteps == {60}

\* 'reset' of a status report, relative to the time of the report.  The
\* status endpoint can lag behind the real reset (comment at lines
\* 1001-1004), so a reported window end may lie in the past.
ResetOffsets == {-30, -15, -5, 5}

---------------------------------------------------------------------------
(* Program constants *)

\* get_data: self._get_data_with_backoff(60, ...)
InitialBackoff == 60
\* "Pad the sleep time by 15 seconds to compensate for possible clock skew"
ClockSkewPadding == 15
\* "if seconds_to_sleep < 0: seconds_to_sleep = 60"
ExpiredWindowSleep == 60
\* e.error_code of a TwythonError that carries no HTTP status
None == 0

\* The text _get_data_with_backoff looks for in str(e)
BadStatusLine == "Caused by <class 'httplib.BadStatusLine'>: ''"

\* HTTP statuses the API answers a request with when it fails
HttpErrorCodes == {401, 404, 429, 500, 502, 503, 504}

\* The TwythonErrors self._twython.get can raise: an HTTP error status, the
\* empty HTTPS response, or another transport failure.
TwythonErrors ==
  {[error_code |-> c, msg |-> "Twitter API returned an error"] : c \in HttpErrorCodes}
    \cup {[error_code |-> None, msg |-> BadStatusLine],
          [error_code |-> None, msg |-> "Connection aborted"]}

NoError == [error_code |-> None, msg |-> ""]

\* len() of what a successful request returns
PageLengths == {0, 99, 100}

\* MINIMUM_TWEETS_REQUIRED_FOR_MORE_API_CALLS of the timeline crawls
MINIMUM_TWEETS_REQUIRED_FOR_MORE_API_CALLS == 100

\* count=200 of the timeline requests, count=100 of the search requests
TimelineCount == 200
SearchCount == 100
\* MINIMUM_TWEETS_REQUIRED_FOR_MORE_API_CALLS of get_all_search_tweets_for_term
SEARCH_MINIMUM_TWEETS_REQUIRED_FOR_MORE_API_CALLS == 1
\* A keyword that is not among the twitter_api_parameters of a request
Absent == -1

\* A page of tweets is kept as its length and the ids of its first and its
\* last tweet; tweets are in the order the API sends them, newest first.
EmptyPage == [len |-> 0, first |-> None, last |-> None]
\* len() of the non-empty pages the API answers with
PageSizes == {1, 80, 99, 100, 200}
\* Newest ids the API leaves out of a page, and ids missing inside a page
\* ("suspended or deleted content is removed after the count has been applied")
IdSkips == {0, 3}
IdGaps == {0, 2}
\* since_id and max_id a caller passes
SinceIds == {500, NewestId}
CallerMaxIds == {900}
\* "looks up 100 users with a single call"
UsersPerLookup == 100
\* len(twitter_ids) of the lists a caller passes to lookup_users
LookupSizes == {0, 1, 99, 100, 101, 200, 250}

\* The crawler object the program has built, and the endpoint its calls go
\* to: CrawlTwitterTimelines._twitter_endpoint (statuses/user_timeline) or
\* FindFollowers._follower_endpoint (followers/ids).
Crawlers == {"CrawlTwitterTimelines", "FindFollowers"}

---------------------------------------------------------------------------
VARIABLES
  now,                                      \* time.time(), in seconds
  api_calls_remaining_for_current_window,   \* the tracked remaining count
  _current_rate_limit_window_ends,          \* the tracked window reset time
  pc,                                       \* position of the thread
  backoff,                                  \* parameter of _get_data_with_backoff
  retries,                                  \* depth of its recursion
  current_time,                             \* local of _sleep_if_rate_limit_reached
  seconds_to_sleep,                         \* local of _sleep_if_rate_limit_reached
  e,                                        \* the TwythonError caught or raised
  data,                                     \* len() of what get_data returned
  sent,                                     \* the request the last step sent to the API
  crawler,                                  \* the crawler object that owns the endpoint
  tweets,                                   \* len(tweets) of the timeline crawl
  follower_ids,                             \* len(follower_ids) of the follower lookup
  method,                                   \* the paginated crawl or lookup that runs
  since_id,                                 \* its argument since_id
  max_id,                                   \* its argument and local max_id
  pages,                                    \* its tweets, as the pages appended to it
  requests,                                 \* twitter_api_parameters of its get_data calls
  result,                                   \* what the method has handed to its caller
  twitter_ids,                              \* argument of lookup_users
  amassed_users,                            \* amassed_users of lookup_users
  responses,                                \* what the id and member requests of a lookup returned
  driver_pc,                                \* position of the batch driver's main()
  position,                                 \* index of its for loop in screen_names
  old_tweet_files,                          \* the [old_path]/[username].tweets files
  new_tweet_files,                          \* the [new_path]/[username].tweets files
  crawled,                                  \* screen names the current run has crawled
  previous_run,                             \* how the run before the current one ended
  crawlers,                                 \* the crawler objects built in the process
  trackers,                                 \* api_calls_remaining_for_current_window of each endpoint object
  true_remaining,                           \* calls the API still grants, per endpoint path
  data_requests,                            \* data requests sent in the window, per endpoint path
  last_checked_status,                      \* last_checked_status of each crawler object
  polled,                                   \* endpoint objects the last api_calls_remaining refreshed
  calls_remaining,                          \* what the last api_calls_remaining returned
  produce_api,                              \* the producer interface of the installed pykafka
  messages,                                 \* the messages of the Kafka topic, in order
  yielded,                                  \* what get_tweets has yielded
  pushed,                                   \* the calls of the send methods
  kafka_pc,                                 \* position of the Kafka producer and consumer
  iterations,                               \* local of get_all_search_tweets_for_term
  gz_file                                   \* lines of the file [term].json.gz

vars == <<now, api_calls_remaining_for_current_window,
          _current_rate_limit_window_ends, pc, backoff, retries,
          current_time, seconds_to_sleep, e, data, sent, crawler, tweets,
          follower_ids, method, since_id, max_id, pages, requests, result,
          twitter_ids, amassed_users, responses, driver_pc, position,
          old_tweet_files, new_tweet_files, crawled, previous_run, crawlers,
          trackers, true_remaining, data_requests, last_checked_status, polled,
          calls_remaining, produce_api, messages, yielded, pushed, kafka_pc,
          iterations, gz_file>>

quota == <<api_calls_remaining_for_current_window, _current_rate_limit_window_ends>>
gate_locals == <<current_time, seconds_to_sleep>>
crawl == <<crawler, tweets, follower_ids>>
accessor == <<now, quota, backoff, retries, gate_locals>>
paging == <<method, since_id, max_id, pages, requests, result, twitter_ids,
            amassed_users, responses>>
driver == <<driver_pc, position, old_tweet_files, new_tweet_files, crawled,
            previous_run>>
objects == <<crawlers, trackers, true_remaining, data_requests,
             last_checked_status, polled, calls_remaining>>
kafka == <<produce_api, messages, yielded, pushed, kafka_pc>>
search == <<iterations, gz_file>>
world == <<driver, objects, kafka, search>>

\* No paginated crawl and no lookup runs
NoMethod ==
  /\ method = ""
  /\ since_id = None
  /\ max_id = None
  /\ pages = <<>>
  /\ requests = <<>>
  /\ result = <<>>
  /\ twitter_ids = <<>>
  /\ amassed_users = <<>>
  /\ responses = <<>>

\* No batch driver runs
NoDriver ==
  /\ driver_pc = "none"
  /\ position = 0
  /\ old_tweet_files = <<>>
  /\ new_tweet_files = <<>>
  /\ crawled = <<>>
  /\ previous_run = <<>>

\* api_calls_remaining has not been called
NoCall == [returned |-> None, raised |-> ""]

\* No crawler object has been built beside the one of crawler
NoObjects ==
  /\ crawlers = {}
  /\ trackers = <<>>
  /\ true_remaining = <<>>
  /\ data_requests = <<>>
  /\ last_checked_status = <<>>
  /\ polled = <<>>
  /\ calls_remaining = NoCall

\* Nothing has gone through Kafka
NoKafka ==
  /\ produce_api = "none"
  /\ messages = <<>>
  /\ yielded = <<>>
  /\ pushed = <<>>
  /\ kafka_pc = "none"

\* No search crawl has counted a turn of its loop or written its file
NoSearch ==
  /\ iterations = 0
  /\ gz_file = Absent

NoWorld == NoDriver /\ NoObjects /\ NoKafka /\ NoSearch

---------------------------------------------------------------------------
(* The environment *)

\* What get_application_rate_limit_status can report at time t for the
\* endpoint: rate_limit_status['resources'][resource][endpoint].
rate_limit_status(t) ==
  {[remaining |-> r, reset |-> t + d] : r \in 0..MaxRemaining, d \in ResetOffsets}

\* time.sleep(secs): the thread blocks for secs seconds.
time_sleep(secs) ==
  /\ now + secs <= MaxTime
  /\ now' = now + secs

\* The pages statuses/user_timeline and search/tweets can answer a request
\* with: at most count tweets, newest first, none newer than max_id, all
\* newer than since_id.
api_pages(params) ==
  LET newest == IF params.max_id = Absent \/ params.max_id > NewestId
                  THEN NewestId ELSE params.max_id
      oldest == IF params.since_id = Absent THEN 1 ELSE params.since_id + 1
      filled == {[len |-> n, first |-> newest - s,
                  last |-> (newest - s) - (n - 1) - (IF n = 1 THEN 0 ELSE g)] :
                   n \in {m \in PageSizes : m <= params.count},
                   s \in IdSkips, g \in IdGaps}
  IN  {EmptyPage} \cup {p \in filled : p.last >= oldest}

---------------------------------------------------------------------------
(* RateLimitedTwitterEndpoint *)

\* _update_rate_limit_status, given the report of the status endpoint
_update_rate_limit_status(status) ==
  /\ _current_rate_limit_window_ends' = status.reset
  /\ api_calls_remaining_for_current_window' = status.remaining

\* Variant: the gate lets a call through when no call remains.
rate_limit_reached_below_zero(remaining) == remaining < 0

\* The test of _sleep_if_rate_limit_reached
rate_limit_reached(remaining) == remaining < 1

\* Variant: the sleep without the padding for clock skew.
SecondsToSleep_unpadded(window_ends, t) ==
  LET unpadded == window_ends - t
  IN  IF unpadded < 0 THEN ExpiredWindowSleep ELSE unpadded

\* The sleep _sleep_if_rate_limit_reached computes at time t for a window
\* that ends at window_ends
SecondsToSleep(window_ends, t) ==
  LET padded == (window_ends - t) + ClockSkewPadding
  IN  IF padded < 0 THEN ExpiredWindowSleep ELSE padded

\* self.api_calls_remaining_for_current_window -= 1
consume(remaining) == remaining - 1

\* Variant: the backoff stops growing at two minutes.
next_backoff_capped(b) == IF b * 2 > 120 THEN 120 ELSE b * 2

\* backoff*2 of the recursive call
next_backoff(b) == b * 2

\* Variant: only 503 counts as a misbehaving server.
Misbehaving_only_503(err) == err.error_code = 503

\* Variant: every 5xx status counts as a misbehaving server.
Misbehaving_any_5xx(err) == err.error_code \in 500..599

\* The branches of the except clause of _get_data_with_backoff
TooManyRequests(err) == err.error_code = 429
Misbehaving(err) == err.error_code \in {502, 503, 504}
EmptyResponse(err) == err.msg = BadStatusLine

\* Variant: the accessor answers a 404 or 401 with an empty result.
ExceptBranch_entity_unavailable(err) ==
  IF TooManyRequests(err) THEN "sleep_429"
  ELSE IF Misbehaving(err) THEN "sleep_misbehaving"
  ELSE IF EmptyResponse(err) THEN "sleep_empty"
  ELSE IF err.error_code = 404 \/ err.error_code = 401 THEN "returned"
  ELSE "raised"

\* Where the except clause of _get_data_with_backoff goes with error err
ExceptBranch(err) ==
  IF TooManyRequests(err) THEN "sleep_429"
  ELSE IF Misbehaving(err) THEN "sleep_misbehaving"
  ELSE IF EmptyResponse(err) THEN "sleep_empty"
  ELSE "raised"

\* get_data: enters _get_data_with_backoff with a backoff of 60 seconds
get_data ==
  /\ pc' = "gate"
  /\ backoff' = InitialBackoff
  /\ retries' = 0
  /\ e' = NoError
  /\ data' = 0
  /\ sent' = "none"
  /\ UNCHANGED <<now, quota, gate_locals>>

\* _sleep_if_rate_limit_reached up to its sleep: returns at once when calls
\* remain, otherwise computes how long to sleep
_sleep_if_rate_limit_reached ==
  /\ pc = "gate"
  /\ IF rate_limit_reached(api_calls_remaining_for_current_window)
       THEN /\ current_time' = now
            /\ seconds_to_sleep' = SecondsToSleep(_current_rate_limit_window_ends, now)
            /\ pc' = "gate_sleep"
       ELSE /\ pc' = "request"
            /\ current_time' = 0
            /\ seconds_to_sleep' = 0
  /\ sent' = "none"
  /\ UNCHANGED <<now, quota, backoff, retries, e, data, crawl, paging, world>>

\* time.sleep(seconds_to_sleep) of _sleep_if_rate_limit_reached
RateLimitSleep ==
  /\ pc = "gate_sleep"
  /\ time_sleep(seconds_to_sleep)
  /\ pc' = "gate_refresh"
  /\ sent' = "none"
  /\ UNCHANGED <<quota, backoff, retries, gate_locals, e, data, crawl, paging, world>>

\* Variant: after the sleep and the refresh the gate returns without
\* checking the count again.
RateLimitRefresh_no_recheck ==
  /\ pc = "gate_refresh"
  /\ sent' = "status"
  /\ \/ \E status \in rate_limit_status(now) :
          /\ _update_rate_limit_status(status)
          /\ pc' = "request"
          /\ UNCHANGED e
     \/ \E err \in TwythonErrors :
          /\ e' = err
          /\ pc' = "raised"
          /\ UNCHANGED quota
  /\ current_time' = 0
  /\ seconds_to_sleep' = 0
  /\ UNCHANGED <<now, backoff, retries, data, crawl, paging, world>>

\* self._update_rate_limit_status() after the sleep, then the recursive
\* call of _sleep_if_rate_limit_reached; a failed status request raises
RateLimitRefresh ==
  /\ pc = "gate_refresh"
  /\ sent' = "status"
  /\ \/ \E status \in rate_limit_status(now) :
          /\ _update_rate_limit_status(status)
          /\ pc' = "gate"
          /\ UNCHANGED e
     \/ \E err \in TwythonErrors :
          /\ e' = err
          /\ pc' = "raised"
          /\ UNCHANGED quota
  /\ current_time' = 0
  /\ seconds_to_sleep' = 0
  /\ UNCHANGED <<now, backoff, retries, data, crawl, paging, world>>

\* Variant: the count is taken after the request, when it has succeeded.
_twython_get_counts_successes ==
  /\ pc = "request"
  /\ sent' = "data"
  /\ \/ \E n \in PageLengths :
          /\ data' = n
          /\ pc' = "returned"
          /\ api_calls_remaining_for_current_window' =
               consume(api_calls_remaining_for_current_window)
          /\ UNCHANGED e
     \/ \E err \in TwythonErrors :
          /\ e' = err
          /\ pc' = ExceptBranch(err)
          /\ UNCHANGED <<data, api_calls_remaining_for_current_window>>
  /\ UNCHANGED <<now, _current_rate_limit_window_ends, backoff, retries,
                 gate_locals, crawl, paging, world>>

\* The decrement, then self._twython.get(...): the request is sent; the API
\* answers with data or with an error, which the except clause classifies
_twython_get ==
  /\ pc = "request"
  /\ api_calls_remaining_for_current_window' =
       consume(api_calls_remaining_for_current_window)
  /\ sent' = "data"
  /\ \/ \E n \in PageLengths :
          /\ data' = n
          /\ pc' = "returned"
          /\ UNCHANGED e
     \/ \E err \in TwythonErrors :
          /\ e' = err
          /\ pc' = ExceptBranch(err)
          /\ UNCHANGED data
  /\ UNCHANGED <<now, _current_rate_limit_window_ends, backoff, retries,
                 gate_locals, crawl, paging, world>>

\* 429: time.sleep(backoff)
TooManyRequestsSleep ==
  /\ pc = "sleep_429"
  /\ retries < MaxRetries
  /\ time_sleep(backoff)
  /\ pc' = "refresh_429"
  /\ sent' = "none"
  /\ UNCHANGED <<quota, backoff, retries, gate_locals, e, data, crawl, paging, world>>

\* Variant: the 429 branch retries without asking the status endpoint.
TooManyRequestsRefresh_no_refresh ==
  /\ pc = "refresh_429"
  /\ sent' = "none"
  /\ backoff' = next_backoff(backoff)
  /\ retries' = retries + 1
  /\ pc' = "gate"
  /\ e' = NoError
  /\ UNCHANGED <<now, quota, gate_locals, data, crawl, paging, world>>

\* Variant: a failed status request in the 429 branch is tried again.
TooManyRequestsRefresh_tries_again ==
  /\ pc = "refresh_429"
  /\ sent' = "status"
  /\ \/ \E status \in rate_limit_status(now) :
          /\ _update_rate_limit_status(status)
          /\ backoff' = next_backoff(backoff)
          /\ retries' = retries + 1
          /\ pc' = "gate"
          /\ e' = NoError
     \/ \E err \in TwythonErrors :
          /\ e' = err
          /\ pc' = "refresh_429"
          /\ UNCHANGED <<quota, backoff, retries>>
  /\ UNCHANGED <<now, gate_locals, data, crawl, paging, world>>

\* 429: self._update_rate_limit_status(), then the recursive call
\* _get_data_with_backoff(backoff*2); a failed status request raises
TooManyRequestsRefresh ==
  /\ pc = "refresh_429"
  /\ sent' = "status"
  /\ \/ \E status \in rate_limit_status(now) :
          /\ _update_rate_limit_status(status)
          /\ backoff' = next_backoff(backoff)
          /\ retries' = retries + 1
          /\ pc' = "gate"
          /\ e' = NoError
     \/ \E err \in TwythonErrors :
          /\ e' = err
          /\ pc' = "raised"
          /\ UNCHANGED <<quota, backoff, retries>>
  /\ UNCHANGED <<now, gate_locals, data, crawl, paging, world>>

\* Variant: a misbehaving server is waited for once, then the error is raised.
MisbehavingSleep_gives_up ==
  /\ pc = "sleep_misbehaving"
  /\ retries < MaxRetries
  /\ time_sleep(backoff)
  /\ pc' = "raised"
  /\ sent' = "none"
  /\ UNCHANGED <<quota, backoff, retries, gate_locals, e, data, crawl, paging, world>>

\* Variant: a misbehaving server is handled as a 429 is, with a status
\* request after the sleep.
MisbehavingSleep_refreshes ==
  /\ pc = "sleep_misbehaving"
  /\ retries < MaxRetries
  /\ time_sleep(backoff)
  /\ \E status \in rate_limit_status(now') : _update_rate_limit_status(status)
  /\ backoff' = next_backoff(backoff)
  /\ retries' = retries + 1
  /\ pc' = "gate"
  /\ e' = NoError
  /\ sent' = "status"
  /\ UNCHANGED <<gate_locals, data, crawl, paging, world>>

\* 502, 503, 504: time.sleep(backoff), then the recursive call
\* _get_data_with_backoff(backoff*2)
MisbehavingSleep ==
  /\ pc = "sleep_misbehaving"
  /\ retries < MaxRetries
  /\ time_sleep(backoff)
  /\ backoff' = next_backoff(backoff)
  /\ retries' = retries + 1
  /\ pc' = "gate"
  /\ e' = NoError
  /\ sent' = "none"
  /\ UNCHANGED <<quota, gate_locals, data, crawl, paging, world>>

\* Empty HTTPS response: time.sleep(backoff), then the recursive call
\* _get_data_with_backoff(backoff*2)
EmptyResponseSleep ==
  /\ pc = "sleep_empty"
  /\ retries < MaxRetries
  /\ time_sleep(backoff)
  /\ backoff' = next_backoff(backoff)
  /\ retries' = retries + 1
  /\ pc' = "gate"
  /\ e' = NoError
  /\ sent' = "none"
  /\ UNCHANGED <<quota, gate_locals, data, crawl, paging, world>>

\* update_rate_limit_status(), the public refresh, between two calls; a
\* failed status request raises to the caller of the refresh
update_rate_limit_status ==
  /\ pc = "idle"
  /\ sent' = "status"
  /\ \/ \E status \in rate_limit_status(now) :
          /\ _update_rate_limit_status(status)
          /\ UNCHANGED <<pc, e>>
     \/ \E err \in TwythonErrors :
          /\ e' = err
          /\ pc' = "failed"
          /\ UNCHANGED quota
  /\ UNCHANGED <<now, backoff, retries, gate_locals, data, crawl, paging, world>>

---------------------------------------------------------------------------
(* CrawlTwitterTimelines *)

\* get_all_timeline_tweets_for_screen_name up to its first request
get_all_timeline_tweets_for_screen_name ==
  /\ pc = "idle"
  /\ crawler = "CrawlTwitterTimelines"
  /\ get_data
  /\ UNCHANGED <<crawl, paging, world>>

\* A page has come back: it is appended to tweets; the crawl returns when
\* the page is short, and otherwise requests the next page
TimelinePage ==
  /\ pc = "returned"
  /\ crawler = "CrawlTwitterTimelines"
  /\ tweets' = tweets + data
  /\ IF data < MINIMUM_TWEETS_REQUIRED_FOR_MORE_API_CALLS
       THEN /\ pc' = "done"
            /\ sent' = "none"
            /\ UNCHANGED <<now, quota, backoff, retries, gate_locals, e, data>>
       ELSE /\ tweets' < MaxPages * MINIMUM_TWEETS_REQUIRED_FOR_MORE_API_CALLS
            /\ get_data
  /\ UNCHANGED <<crawler, follower_ids, paging, world>>

\* get_data has raised: the crawl has no except clause, the error goes on
\* to its caller
TimelineRaise ==
  /\ pc = "raised"
  /\ crawler = "CrawlTwitterTimelines"
  /\ pc' = "failed"
  /\ sent' = "none"
  /\ UNCHANGED <<now, quota, backoff, retries, gate_locals, e, data, crawl, paging, world>>

---------------------------------------------------------------------------
(* FindFollowers *)

\* get_follower_ids_for_screen_name up to its request
get_follower_ids_for_screen_name ==
  /\ pc = "idle"
  /\ crawler = "FindFollowers"
  /\ get_data
  /\ UNCHANGED <<crawl, paging, world>>

\* follower_ids = get_data(...)[u'ids']; return follower_ids
FollowerIdsReturn ==
  /\ pc = "returned"
  /\ crawler = "FindFollowers"
  /\ follower_ids' = data
  /\ pc' = "done"
  /\ sent' = "none"
  /\ UNCHANGED <<now, quota, backoff, retries, gate_locals, e, data, crawler, tweets, paging, world>>

\* except TwythonError as e: 404 and 401 give follower_ids = [], any other
\* error is raised again
FollowerIdsExcept ==
  /\ pc = "raised"
  /\ crawler = "FindFollowers"
  /\ IF e.error_code = 404 \/ e.error_code = 401
       THEN /\ follower_ids' = 0
            /\ pc' = "done"
       ELSE /\ pc' = "failed"
            /\ UNCHANGED follower_ids
  /\ sent' = "none"
  /\ UNCHANGED <<now, quota, backoff, retries, gate_locals, e, data, crawler, tweets, paging, world>>

---------------------------------------------------------------------------
(* The paginated crawls of CrawlTwitterTimelines and SearchTwitterTimelines. *)
(* Here a get_data call is one step: the request it sends and the page or   *)
(* the error it hands back; the steps inside get_data are those above.      *)

\* bool(tweets): some page appended to tweets had a tweet
has_tweets(ps) == \E i \in 1..Len(ps) : ps[i].len > 0

\* Variant: the cursor is taken from the first tweet fetched.
last_tweet_id_is_first(ps) ==
  LET filled == {i \in 1..Len(ps) : ps[i].len > 0}
      i == CHOOSE j \in filled : \A k \in filled : j <= k
  IN  ps[i].first

\* int(tweets[-1]['id'])
last_tweet_id(ps) ==
  LET filled == {i \in 1..Len(ps) : ps[i].len > 0}
      i == CHOOSE j \in filled : \A k \in filled : k <= j
  IN  ps[i].last

\* Variant: the cursor is the id of the last tweet itself.
next_max_id_inclusive(ps) == last_tweet_id(ps)

\* max_id = int(tweets[-1]['id']) - 1
next_max_id(ps) == last_tweet_id(ps) - 1

\* max_id-1 of the first request of get_all_search_tweets_for_term
search_first_max_id(m) == m - 1

\* Variant: a page of exactly minimum tweets ends the crawl.
get_page_stops_at_minimum(params, minimum) ==
  /\ requests' = Append(requests, params)
  /\ sent' = "data"
  /\ \/ \E more_tweets \in api_pages(params) :
          /\ pages' = Append(pages, more_tweets)
          /\ data' = more_tweets.len
          /\ IF more_tweets.len <= minimum
               THEN /\ pc' = "done"
                    /\ result' = pages'
               ELSE /\ pc' = "crawling"
                    /\ UNCHANGED result
          /\ UNCHANGED e
     \/ \E err \in TwythonErrors :
          /\ e' = err
          /\ pc' = "failed"
          /\ UNCHANGED <<pages, data, result>>

\* Variant: a new page is put in front of the tweets fetched before.
get_page_prepends(params, minimum) ==
  /\ requests' = Append(requests, params)
  /\ sent' = "data"
  /\ \/ \E more_tweets \in api_pages(params) :
          /\ pages' = <<more_tweets>> \o pages
          /\ data' = more_tweets.len
          /\ IF more_tweets.len < minimum
               THEN /\ pc' = "done"
                    /\ result' = pages'
               ELSE /\ pc' = "crawling"
                    /\ UNCHANGED result
          /\ UNCHANGED e
     \/ \E err \in TwythonErrors :
          /\ e' = err
          /\ pc' = "failed"
          /\ UNCHANGED <<pages, data, result>>

\* Variant: each page is handed to the caller as it arrives.
get_page_streams(params, minimum) ==
  /\ requests' = Append(requests, params)
  /\ sent' = "data"
  /\ \/ \E more_tweets \in api_pages(params) :
          /\ pages' = Append(pages, more_tweets)
          /\ data' = more_tweets.len
          /\ IF more_tweets.len < minimum
               THEN /\ pc' = "done"
                    /\ result' = pages'
               ELSE /\ pc' = "crawling"
                    /\ result' = pages'
          /\ UNCHANGED e
     \/ \E err \in TwythonErrors :
          /\ e' = err
          /\ pc' = "failed"
          /\ UNCHANGED <<pages, data, result>>

\* more_tweets = get_data(**params); tweets += more_tweets; return tweets
\* when len(more_tweets) is below minimum.  A get_data that raises ends the
\* crawl: no crawl method has an except clause.
get_page(params, minimum) ==
  /\ requests' = Append(requests, params)
  /\ sent' = "data"
  /\ \/ \E more_tweets \in api_pages(params) :
          /\ pages' = Append(pages, more_tweets)
          /\ data' = more_tweets.len
          /\ IF more_tweets.len < minimum
               THEN /\ pc' = "done"
                    /\ result' = pages'
               ELSE /\ pc' = "crawling"
                    /\ UNCHANGED result
          /\ UNCHANGED e
     \/ \E err \in TwythonErrors :
          /\ e' = err
          /\ pc' = "failed"
          /\ UNCHANGED <<pages, data, result>>

\* get_all_timeline_tweets_for_id (and _for_screen_name) up to the end of
\* its first request
get_all_timeline_tweets_for_id ==
  /\ pc = "idle"
  /\ crawler = "CrawlTwitterTimelines"
  /\ method' = "get_all_timeline_tweets_for_id"
  /\ since_id' = None
  /\ max_id' = None
  /\ get_page([count |-> TimelineCount, max_id |-> Absent, since_id |-> Absent],
              MINIMUM_TWEETS_REQUIRED_FOR_MORE_API_CALLS)
  /\ UNCHANGED <<accessor, crawl, world, responses, twitter_ids, amassed_users>>

\* One turn of its while loop
get_all_timeline_tweets_for_id_loop ==
  /\ pc = "crawling"
  /\ method = "get_all_timeline_tweets_for_id"
  /\ Len(requests) < MaxRequests
  /\ max_id' = next_max_id(pages)
  /\ get_page([count |-> TimelineCount, max_id |-> max_id', since_id |-> Absent],
              MINIMUM_TWEETS_REQUIRED_FOR_MORE_API_CALLS)
  /\ UNCHANGED <<accessor, crawl, world, responses, method, since_id, twitter_ids, amassed_users>>

\* Variant: the first request of the since crawl carries no since_id.
get_all_timeline_tweets_for_id_since_forgets_since_id ==
  /\ pc = "idle"
  /\ crawler = "CrawlTwitterTimelines"
  /\ method' = "get_all_timeline_tweets_for_id_since"
  /\ \E s \in SinceIds, m \in {None} \cup CallerMaxIds :
       /\ since_id' = s
       /\ max_id' = m
       /\ IF m = None
            THEN get_page([count |-> TimelineCount, max_id |-> Absent, since_id |-> Absent],
                          MINIMUM_TWEETS_REQUIRED_FOR_MORE_API_CALLS)
            ELSE /\ pc' = "crawling"
                 /\ sent' = "none"
                 /\ UNCHANGED <<pages, requests, result, data, e>>
  /\ UNCHANGED <<accessor, crawl, world, responses, twitter_ids, amassed_users>>

\* get_all_timeline_tweets_for_id_since (and _for_screen_name_since) up to
\* its while loop: the first request is made only "if not max_id"
get_all_timeline_tweets_for_id_since ==
  /\ pc = "idle"
  /\ crawler = "CrawlTwitterTimelines"
  /\ method' = "get_all_timeline_tweets_for_id_since"
  /\ \E s \in SinceIds, m \in {None} \cup CallerMaxIds :
       /\ since_id' = s
       /\ max_id' = m
       /\ IF m = None
            THEN get_page([count |-> TimelineCount, max_id |-> Absent, since_id |-> s],
                          MINIMUM_TWEETS_REQUIRED_FOR_MORE_API_CALLS)
            ELSE /\ pc' = "crawling"
                 /\ sent' = "none"
                 /\ UNCHANGED <<pages, requests, result, data, e>>
  /\ UNCHANGED <<accessor, crawl, world, responses, twitter_ids, amassed_users>>

\* Variant: the max_id of the caller is exclusive, as it is in the search
\* crawl.
get_all_timeline_tweets_for_id_since_loop_exclusive_max_id ==
  /\ pc = "crawling"
  /\ method = "get_all_timeline_tweets_for_id_since"
  /\ Len(requests) < MaxRequests
  /\ max_id' = IF has_tweets(pages) THEN next_max_id(pages) ELSE max_id - 1
  /\ get_page([count |-> TimelineCount, max_id |-> max_id', since_id |-> since_id],
              MINIMUM_TWEETS_REQUIRED_FOR_MORE_API_CALLS)
  /\ UNCHANGED <<accessor, crawl, world, responses, method, since_id, twitter_ids, amassed_users>>

\* One turn of its while loop: max_id moves only "if tweets"
get_all_timeline_tweets_for_id_since_loop ==
  /\ pc = "crawling"
  /\ method = "get_all_timeline_tweets_for_id_since"
  /\ Len(requests) < MaxRequests
  /\ max_id' = IF has_tweets(pages) THEN next_max_id(pages) ELSE max_id
  /\ get_page([count |-> TimelineCount, max_id |-> max_id', since_id |-> since_id],
              MINIMUM_TWEETS_REQUIRED_FOR_MORE_API_CALLS)
  /\ UNCHANGED <<accessor, crawl, world, responses, method, since_id, twitter_ids, amassed_users>>

\* get_all_timeline_tweets_for_id_between_ids up to the end of its first
\* request
get_all_timeline_tweets_for_id_between_ids ==
  /\ pc = "idle"
  /\ crawler = "CrawlTwitterTimelines"
  /\ method' = "get_all_timeline_tweets_for_id_between_ids"
  /\ \E s \in SinceIds, m \in CallerMaxIds :
       /\ since_id' = s
       /\ max_id' = m
       /\ get_page([count |-> TimelineCount, max_id |-> m, since_id |-> s],
                   MINIMUM_TWEETS_REQUIRED_FOR_MORE_API_CALLS)
  /\ UNCHANGED <<accessor, crawl, world, responses, twitter_ids, amassed_users>>

\* Variant: the later requests of the range crawl leave since_id out.
get_all_timeline_tweets_for_id_between_ids_loop_drops_since_id ==
  /\ pc = "crawling"
  /\ method = "get_all_timeline_tweets_for_id_between_ids"
  /\ Len(requests) < MaxRequests
  /\ max_id' = next_max_id(pages)
  /\ get_page([count |-> TimelineCount, max_id |-> max_id', since_id |-> Absent],
              MINIMUM_TWEETS_REQUIRED_FOR_MORE_API_CALLS)
  /\ UNCHANGED <<accessor, crawl, world, responses, method, since_id, twitter_ids, amassed_users>>

\* One turn of its while loop
get_all_timeline_tweets_for_id_between_ids_loop ==
  /\ pc = "crawling"
  /\ method = "get_all_timeline_tweets_for_id_between_ids"
  /\ Len(requests) < MaxRequests
  /\ max_id' = next_max_id(pages)
  /\ get_page([count |-> TimelineCount, max_id |-> max_id', since_id |-> since_id],
              MINIMUM_TWEETS_REQUIRED_FOR_MORE_API_CALLS)
  /\ UNCHANGED <<accessor, crawl, world, responses, method, since_id, twitter_ids, amassed_users>>

\* iterations % 100 == 0
DumpEvery == 100

\* len(tweets), the pages ps taken together: the lines "for t in tweets"
\* writes
RECURSIVE total_length(_)
total_length(ps) == IF ps = <<>> THEN 0 ELSE ps[1].len + total_length(Tail(ps))

\* The "HARDCODE -- temporary" block at the end of a turn of the loop that
\* goes on: every 100 turns all the tweets fetched so far are written to
\* [term].json.gz; whatever the block raises, a missing ujson included, is
\* caught and printed, and the file is then as it was
dump_to_file(lines) ==
  IF pc' = "crawling" /\ iterations' % DumpEvery = 0
    THEN gz_file' \in {lines, gz_file}
    ELSE UNCHANGED gz_file

\* get_all_search_tweets_for_term up to the end of its first request
get_all_search_tweets_for_term ==
  /\ pc = "idle"
  /\ crawler = "SearchTwitterTimelines"
  /\ method' = "get_all_search_tweets_for_term"
  /\ since_id' = None
  /\ \E m \in {None} \cup CallerMaxIds :
       /\ max_id' = m
       /\ IF m # None
            THEN get_page([count |-> SearchCount, max_id |-> search_first_max_id(m),
                           since_id |-> Absent],
                          SEARCH_MINIMUM_TWEETS_REQUIRED_FOR_MORE_API_CALLS)
            ELSE get_page([count |-> SearchCount, max_id |-> Absent,
                           since_id |-> Absent],
                          SEARCH_MINIMUM_TWEETS_REQUIRED_FOR_MORE_API_CALLS)
  /\ iterations' = 0
  /\ UNCHANGED <<accessor, crawl, driver, objects, kafka, gz_file, responses,
                 twitter_ids, amassed_users>>

\* Variant: the search crawl stops at the threshold of the timeline crawls.
get_all_search_tweets_for_term_loop_timeline_minimum ==
  /\ pc = "crawling"
  /\ method = "get_all_search_tweets_for_term"
  /\ Len(requests) < MaxRequests
  /\ max_id' = next_max_id(pages)
  /\ get_page([count |-> SearchCount, max_id |-> max_id', since_id |-> Absent],
              MINIMUM_TWEETS_REQUIRED_FOR_MORE_API_CALLS)
  /\ iterations' = iterations + 1
  /\ dump_to_file(total_length(pages'))
  /\ UNCHANGED <<accessor, crawl, driver, objects, kafka, responses, method, since_id,
                 twitter_ids, amassed_users>>

\* One turn of its while loop
get_all_search_tweets_for_term_loop ==
  /\ pc = "crawling"
  /\ method = "get_all_search_tweets_for_term"
  /\ Len(requests) < MaxRequests
  /\ max_id' = next_max_id(pages)
  /\ get_page([count |-> SearchCount, max_id |-> max_id', since_id |-> Absent],
              SEARCH_MINIMUM_TWEETS_REQUIRED_FOR_MORE_API_CALLS)
  /\ iterations' = iterations + 1
  /\ dump_to_file(total_length(pages'))
  /\ UNCHANGED <<accessor, crawl, driver, objects, kafka, responses, method, since_id,
                 twitter_ids, amassed_users>>

---------------------------------------------------------------------------
(* UserLookup *)

\* A list of n distinct user ids
ids_of_length(n) == [i \in 1..n |-> 3 * i]

\* grouper(iterable, n, fillvalue): itertools.izip_longest over n copies of
\* one iterator, so fixed-length chunks, the last one filled with fillvalue
grouper(iterable, n, fillvalue) ==
  [k \in 1..((Len(iterable) + n - 1) \div n) |->
     [j \in 1..n |-> IF (k - 1) * n + j <= Len(iterable)
                       THEN iterable[(k - 1) * n + j]
                       ELSE fillvalue]]

\* Variant: the fill values of the last chunk are sent along.
not_none_keeps_padding(id_subset) == id_subset

\* [str(id) for id in id_subset if id is not None]
not_none(id_subset) == SelectSeq(id_subset, LAMBDA id : id # None)

\* What users/lookup answers for user_ids: the users it knows, in order
users_lookup(user_ids) ==
  {user_ids} \cup (IF user_ids = <<>> THEN {} ELSE {Tail(user_ids)})

\* lookup_users(twitter_ids): amassed_users = []
lookup_users ==
  /\ pc = "idle"
  /\ crawler = "UserLookup"
  /\ method' = "lookup_users"
  /\ \E n \in LookupSizes : twitter_ids' = ids_of_length(n)
  /\ amassed_users' = <<>>
  /\ pc' = "looking_up"
  /\ sent' = "none"
  /\ UNCHANGED <<accessor, crawl, world, responses, since_id, max_id, pages, requests, result, data, e>>

\* One turn of its for loop, or its return when the chunks are used up
lookup_users_loop ==
  /\ pc = "looking_up"
  /\ LET chunks == grouper(twitter_ids, UsersPerLookup, None)
         i == Len(requests) + 1
     IN  IF i > Len(chunks)
           THEN /\ pc' = "done"
                /\ result' = amassed_users
                /\ sent' = "none"
                /\ UNCHANGED <<requests, amassed_users, e>>
           ELSE LET user_ids == not_none(chunks[i])
                IN  /\ requests' = Append(requests, [user_id |-> user_ids])
                    /\ sent' = "data"
                    /\ \/ \E users \in users_lookup(user_ids) :
                            /\ amassed_users' = amassed_users \o users
                            /\ pc' = "looking_up"
                            /\ UNCHANGED <<result, e>>
                       \/ \E err \in TwythonErrors :
                            /\ e' = err
                            /\ pc' = "failed"
                            /\ UNCHANGED <<amassed_users, result>>
  /\ UNCHANGED <<accessor, crawl, world, responses, method, since_id, max_id, pages, twitter_ids, data>>

---------------------------------------------------------------------------
(* FindFriendFollowers, FindFollowers, FindFollowees and ListMembership.    *)
(* A get_data call is one step here as well.                                *)

\* The users and lists a lookup is asked about
Identities == {21, 22}

\* The ids one request can return
IdLists == {<<>>, <<11>>, <<11, 11>>, <<11, 12>>, <<12, 13>>}

\* next_cursor of a response: 0 when there is no further page
Cursors == {0, 1400}

\* count= of the lists/members request
ListMembersCount == 5000

\* What friends/ids and followers/ids answer: one page of ids and the
\* cursor of the next page
ids_pages == {[ids |-> ids, next_cursor |-> c] : ids \in IdLists, c \in Cursors}

\* The orders list(aset) can come out in
list_of(aset) ==
  {s \in UNION {[1..n -> aset] : n \in {Cardinality(aset)}} :
     \A i, j \in 1..Len(s) : i # j => s[i] # s[j]}

\* Variant: the ids of either response are returned.
intersection_is_union(friends, followers) ==
  {friends[i] : i \in 1..Len(friends)}
    \cup {followers[i] : i \in 1..Len(followers)}

\* set(friend_ids).intersection(set(follower_ids))
intersection(friends, followers) ==
  {friends[i] : i \in 1..Len(friends)}
    \cap {followers[i] : i \in 1..Len(followers)}

\* The except clause of an id lookup: a 404 or 401 is logged and the ids
\* become [], any other error is raised again
ids_except(err) ==
  /\ e' = err
  /\ IF err.error_code = 404 \/ err.error_code = 401
       THEN /\ pc' = "done"
            /\ result' = <<>>
       ELSE /\ pc' = "failed"
            /\ UNCHANGED result

\* get_ff_ids_for_screen_name / get_ff_ids_for_id up to the return of the
\* friends/ids request
get_ff_ids(key) ==
  /\ pc = "idle"
  /\ crawler = "FindFriendFollowers"
  /\ method' = "get_ff_ids_for_" \o key
  /\ \E user \in Identities :
       requests' = <<[endpoint |-> "friends/ids", key |-> key, value |-> user]>>
  /\ sent' = "data"
  /\ \/ \E friends \in ids_pages :
          /\ responses' = <<friends>>
          /\ pc' = "friends_fetched"
          /\ UNCHANGED <<e, result>>
     \/ \E err \in TwythonErrors :
          /\ ids_except(err)
          /\ UNCHANGED responses
  /\ UNCHANGED <<accessor, crawl, world, since_id, max_id, pages, twitter_ids,
                 amassed_users, data>>

get_ff_ids_for_screen_name == get_ff_ids("screen_name")

get_ff_ids_for_id == get_ff_ids("id")

\* Variant: a failed followers/ids request leaves the friend ids in place.
get_ff_ids_followers_keeps_friend_ids ==
  /\ pc = "friends_fetched"
  /\ requests' = Append(requests, [requests[1] EXCEPT !.endpoint = "followers/ids"])
  /\ sent' = "data"
  /\ \/ \E followers \in ids_pages :
          /\ responses' = Append(responses, followers)
          /\ pc' = "done"
          /\ result' \in list_of(intersection(responses[1].ids, followers.ids))
          /\ UNCHANGED e
     \/ \E err \in TwythonErrors :
          /\ e' = err
          /\ IF err.error_code = 404 \/ err.error_code = 401
               THEN /\ pc' = "done"
                    /\ result' = responses[1].ids
               ELSE /\ pc' = "failed"
                    /\ UNCHANGED result
          /\ UNCHANGED responses
  /\ UNCHANGED <<accessor, crawl, world, method, since_id, max_id, pages,
                 twitter_ids, amassed_users, data>>

\* The followers/ids request of get_ff_ids_for_screen_name and
\* get_ff_ids_for_id, and their return
get_ff_ids_followers ==
  /\ pc = "friends_fetched"
  /\ requests' = Append(requests, [requests[1] EXCEPT !.endpoint = "followers/ids"])
  /\ sent' = "data"
  /\ \/ \E followers \in ids_pages :
          /\ responses' = Append(responses, followers)
          /\ pc' = "done"
          /\ result' \in list_of(intersection(responses[1].ids, followers.ids))
          /\ UNCHANGED e
     \/ \E err \in TwythonErrors :
          /\ ids_except(err)
          /\ UNCHANGED responses
  /\ UNCHANGED <<accessor, crawl, world, method, since_id, max_id, pages,
                 twitter_ids, amassed_users, data>>

\* Variant: a lookup asks for the page next_cursor names as well.
get_ids_follows_cursor(owner, name, endpoint, key) ==
  /\ pc = "idle"
  /\ crawler = owner
  /\ method' = name
  /\ sent' = "data"
  /\ \E user \in Identities :
       LET first == [endpoint |-> endpoint, key |-> key, value |-> user]
       IN  \/ \E page \in ids_pages :
                /\ responses' = <<page>>
                /\ requests' = IF page.next_cursor = 0
                                 THEN <<first>>
                                 ELSE <<first, first>>
                /\ pc' = "done"
                /\ result' = page.ids
                /\ UNCHANGED e
           \/ \E err \in TwythonErrors :
                /\ requests' = <<first>>
                /\ ids_except(err)
                /\ UNCHANGED responses
  /\ UNCHANGED <<accessor, crawl, world, since_id, max_id, pages, twitter_ids,
                 amassed_users, data>>

\* A lookup made of one request whose [u'ids'] it returns
get_ids(owner, name, endpoint, key) ==
  /\ pc = "idle"
  /\ crawler = owner
  /\ method' = name
  /\ \E user \in Identities :
       requests' = <<[endpoint |-> endpoint, key |-> key, value |-> user]>>
  /\ sent' = "data"
  /\ \/ \E page \in ids_pages :
          /\ responses' = <<page>>
          /\ pc' = "done"
          /\ result' = page.ids
          /\ UNCHANGED e
     \/ \E err \in TwythonErrors :
          /\ ids_except(err)
          /\ UNCHANGED responses
  /\ UNCHANGED <<accessor, crawl, world, since_id, max_id, pages, twitter_ids,
                 amassed_users, data>>

\* FindFollowers.get_follower_ids_for_id
get_follower_ids_for_id ==
  get_ids("FindFollowers", "get_follower_ids_for_id", "followers/ids", "id")

\* self._followee_endpoint of FindFollowees
followee_endpoint == "followers/ids"

\* FindFollowees.get_followee_ids_for_screen_name
get_followee_ids_for_screen_name ==
  get_ids("FindFollowees", "get_followee_ids_for_screen_name",
          followee_endpoint, "screen_name")

\* FindFollowees.get_followee_ids_for_id
get_followee_ids_for_id ==
  get_ids("FindFollowees", "get_followee_ids_for_id", followee_endpoint, "id")

\* What a by-id screen-name lookup raises when it reads screen_name
NameError == [error_code |-> None, msg |-> "NameError: global name 'screen_name' is not defined"]

\* user[u'screen_name'] of the user with this id
screen_name_of(id) == <<"@", id>>

\* get_ff_screen_names_for_id(user_id): its first line passes screen_name,
\* a name the method does not have, to get_ff_ids_for_screen_name
get_ff_screen_names_for_id ==
  /\ pc = "idle"
  /\ crawler = "FindFriendFollowers"
  /\ method' = "get_ff_screen_names_for_id"
  /\ e' = NameError
  /\ pc' = "failed"
  /\ sent' = "none"
  /\ UNCHANGED <<accessor, crawl, world, responses, since_id, max_id, pages, requests,
                 result, twitter_ids, amassed_users, data>>

\* A by-id screen-name lookup up to its for loop: it hands user_id to the
\* id lookup by screen name, whose 404 and 401 leave no id to resolve
get_screen_names_for_id(owner, name, endpoint) ==
  /\ pc = "idle"
  /\ crawler = owner
  /\ method' = name
  /\ \E user_id \in Identities :
       requests' = <<[endpoint |-> endpoint, key |-> "screen_name", value |-> user_id]>>
  /\ sent' = "data"
  /\ amassed_users' = <<>>
  /\ \/ \E page \in ids_pages :
          /\ responses' = <<page>>
          /\ twitter_ids' = page.ids
          /\ pc' = "resolving"
          /\ UNCHANGED e
     \/ \E err \in TwythonErrors :
          /\ e' = err
          /\ IF err.error_code = 404 \/ err.error_code = 401
               THEN pc' = "resolving"
               ELSE pc' = "failed"
          /\ UNCHANGED <<responses, twitter_ids>>
  /\ UNCHANGED <<accessor, crawl, world, since_id, max_id, pages, result, data>>

\* FindFollowers.get_follower_screen_names_for_id
get_follower_screen_names_for_id ==
  get_screen_names_for_id("FindFollowers", "get_follower_screen_names_for_id",
                          "followers/ids")

\* FindFollowees.get_followee_screen_names_for_id
get_followee_screen_names_for_id ==
  get_screen_names_for_id("FindFollowees", "get_followee_screen_names_for_id",
                          followee_endpoint)

\* One turn of the for loop over grouper(ids, 100), or the return of the
\* screen names when the chunks are used up
get_screen_names_loop ==
  /\ pc = "resolving"
  /\ LET chunks == grouper(twitter_ids, UsersPerLookup, None)
         i == Len(requests)
     IN  IF i > Len(chunks)
           THEN /\ pc' = "done"
                /\ result' = amassed_users
                /\ sent' = "none"
                /\ UNCHANGED <<requests, amassed_users, e>>
           ELSE LET user_ids == not_none(chunks[i])
                IN  /\ requests' = Append(requests,
                                          [endpoint |-> "users/lookup", key |-> "user_id",
                                           value |-> user_ids])
                    /\ sent' = "data"
                    /\ \/ \E users \in users_lookup(user_ids) :
                            /\ amassed_users' = amassed_users \o
                                 [k \in 1..Len(users) |-> screen_name_of(users[k])]
                            /\ pc' = "resolving"
                            /\ UNCHANGED <<result, e>>
                       \/ \E err \in TwythonErrors :
                            /\ e' = err
                            /\ pc' = "failed"
                            /\ UNCHANGED <<amassed_users, result>>
  /\ UNCHANGED <<accessor, crawl, world, responses, method, since_id, max_id, pages,
                 twitter_ids, data>>

\* Variant: the 404 and 401 handling of the id lookups, which the method
\* carries inside a string literal, is in force.
get_list_memberships_for_screen_name_logs_404 ==
  /\ pc = "idle"
  /\ crawler = "ListMembership"
  /\ method' = "get_list_memberships_for_screen_name"
  /\ \E user \in Identities :
       requests' = <<[endpoint |-> "lists/memberships", key |-> "screen_name",
                      value |-> user]>>
  /\ sent' = "data"
  /\ \/ \E page \in ids_pages :
          /\ responses' = <<page>>
          /\ pc' = "done"
          /\ result' = page.ids
          /\ UNCHANGED e
     \/ \E err \in TwythonErrors :
          /\ ids_except(err)
          /\ UNCHANGED responses
  /\ UNCHANGED <<accessor, crawl, world, since_id, max_id, pages, twitter_ids,
                 amassed_users, data>>

\* ListMembership.get_list_memberships_for_screen_name: every error of the
\* request is printed and raised again
get_list_memberships_for_screen_name ==
  /\ pc = "idle"
  /\ crawler = "ListMembership"
  /\ method' = "get_list_memberships_for_screen_name"
  /\ \E user \in Identities :
       requests' = <<[endpoint |-> "lists/memberships", key |-> "screen_name",
                      value |-> user]>>
  /\ sent' = "data"
  /\ \/ \E page \in ids_pages :
          /\ responses' = <<page>>
          /\ pc' = "done"
          /\ result' = page.ids
          /\ UNCHANGED e
     \/ \E err \in TwythonErrors :
          /\ e' = err
          /\ pc' = "failed"
          /\ UNCHANGED <<responses, result>>
  /\ UNCHANGED <<accessor, crawl, world, since_id, max_id, pages, twitter_ids,
                 amassed_users, data>>

\* ListMembership.get_list_members_by_list_id: one request, no try
get_list_members_by_list_id ==
  /\ pc = "idle"
  /\ crawler = "ListMembership"
  /\ method' = "get_list_members_by_list_id"
  /\ \E list_id \in Identities :
       requests' = <<[endpoint |-> "lists/members", key |-> "list_id",
                      value |-> list_id, count |-> ListMembersCount]>>
  /\ sent' = "data"
  /\ \/ \E response \in ids_pages :
          /\ responses' = <<response>>
          /\ pc' = "done"
          /\ result' = response.ids
          /\ UNCHANGED e
     \/ \E err \in TwythonErrors :
          /\ e' = err
          /\ pc' = "failed"
          /\ UNCHANGED <<responses, result>>
  /\ UNCHANGED <<accessor, crawl, world, since_id, max_id, pages, twitter_ids,
                 amassed_users, data>>

---------------------------------------------------------------------------
(* The caller of the crawler *)

\* The caller has the result, or the error, of the crawler method
Finish ==
  /\ pc \in {"done", "failed"}
  /\ pc' = "idle"
  /\ backoff' = InitialBackoff
  /\ retries' = 0
  /\ e' = NoError
  /\ data' = 0
  /\ sent' = "none"
  /\ tweets' = 0
  /\ follower_ids' = 0
  /\ method' = ""
  /\ since_id' = None
  /\ max_id' = None
  /\ pages' = <<>>
  /\ requests' = <<>>
  /\ result' = <<>>
  /\ twitter_ids' = <<>>
  /\ amassed_users' = <<>>
  /\ responses' = <<>>
  /\ iterations' = 0
  /\ UNCHANGED <<now, quota, gate_locals, crawler, driver, objects, kafka, gz_file>>

\* Time passes between two calls
Tick ==
  /\ pc = "idle"
  /\ \E secs \in TickSteps : time_sleep(secs)
  /\ sent' = "none"
  /\ UNCHANGED <<quota, pc, backoff, retries, gate_locals, e, data, crawl, paging, world>>

---------------------------------------------------------------------------
\* The crawler's __init__ builds the endpoint, whose __init__ ends with
\* self._update_rate_limit_status()
Init ==
  /\ now = 0
  /\ \E status \in rate_limit_status(0) :
       /\ _current_rate_limit_window_ends = status.reset
       /\ api_calls_remaining_for_current_window = status.remaining
  /\ pc = "idle"
  /\ backoff = InitialBackoff
  /\ retries = 0
  /\ current_time = 0
  /\ seconds_to_sleep = 0
  /\ e = NoError
  /\ data = 0
  /\ sent = "status"
  /\ crawler \in Crawlers
  /\ tweets = 0
  /\ follower_ids = 0
  /\ NoMethod
  /\ NoWorld

Next ==
  \/ get_all_timeline_tweets_for_screen_name
  \/ TimelinePage
  \/ TimelineRaise
  \/ get_follower_ids_for_screen_name
  \/ FollowerIdsReturn
  \/ FollowerIdsExcept
  \/ _sleep_if_rate_limit_reached
  \/ RateLimitSleep
  \/ RateLimitRefresh
  \/ _twython_get
  \/ TooManyRequestsSleep
  \/ TooManyRequestsRefresh
  \/ MisbehavingSleep
  \/ EmptyResponseSleep
  \/ update_rate_limit_status
  \/ Finish
  \/ Tick

Spec == Init /\ [][Next]_vars

\* The thread of control: every step of a running crawler method.  The
\* program is sequential, so a step that can be taken is taken.
Program ==
  \/ TimelinePage
  \/ TimelineRaise
  \/ FollowerIdsReturn
  \/ FollowerIdsExcept
  \/ _sleep_if_rate_limit_reached
  \/ RateLimitSleep
  \/ RateLimitRefresh
  \/ _twython_get
  \/ TooManyRequestsSleep
  \/ TooManyRequestsRefresh
  \/ MisbehavingSleep
  \/ EmptyResponseSleep
  \/ Finish

FairSpec == Spec /\ WF_vars(Program)

\* The crawlers whose methods page through results or look users up
PagingCrawlers ==
  {"CrawlTwitterTimelines", "SearchTwitterTimelines", "UserLookup",
   "FindFriendFollowers", "FindFollowers", "FindFollowees", "ListMembership"}

PagingInit ==
  /\ now = 0
  /\ \E status \in rate_limit_status(0) :
       /\ _current_rate_limit_window_ends = status.reset
       /\ api_calls_remaining_for_current_window = status.remaining
  /\ pc = "idle"
  /\ backoff = InitialBackoff
  /\ retries = 0
  /\ current_time = 0
  /\ seconds_to_sleep = 0
  /\ e = NoError
  /\ data = 0
  /\ sent = "status"
  /\ crawler \in PagingCrawlers
  /\ tweets = 0
  /\ follower_ids = 0
  /\ NoMethod
  /\ NoWorld

PagingNext ==
  \/ get_all_timeline_tweets_for_id
  \/ get_all_timeline_tweets_for_id_loop
  \/ get_all_timeline_tweets_for_id_since
  \/ get_all_timeline_tweets_for_id_since_loop
  \/ get_all_timeline_tweets_for_id_between_ids
  \/ get_all_timeline_tweets_for_id_between_ids_loop
  \/ get_all_search_tweets_for_term
  \/ get_all_search_tweets_for_term_loop
  \/ lookup_users
  \/ lookup_users_loop
  \/ get_ff_ids_for_screen_name
  \/ get_ff_ids_for_id
  \/ get_ff_ids_followers
  \/ get_follower_ids_for_id
  \/ get_followee_ids_for_screen_name
  \/ get_followee_ids_for_id
  \/ get_list_memberships_for_screen_name
  \/ get_list_members_by_list_id
  \/ get_ff_screen_names_for_id
  \/ get_follower_screen_names_for_id
  \/ get_followee_screen_names_for_id
  \/ get_screen_names_loop
  \/ Finish

\* The crawler methods, each get_data call taken as one step
PagingSpec == PagingInit /\ [][PagingNext]_vars

\* A refresh made inside get_data finds calls remaining
StatusReportsCallsRemaining ==
  /\ RateLimitRefresh \/ TooManyRequestsRefresh
  /\ api_calls_remaining_for_current_window' >= 1

\* The thread keeps running, and the status endpoint, asked again and
\* again, does not report 0 calls remaining for ever.
EventualQuotaSpec == FairSpec /\ SF_vars(StatusReportsCallsRemaining)

---------------------------------------------------------------------------
(* The batch drivers: save_recent_tweets_to_json.py and trawler.py.         *)
(* The crawl a driver asks for is one step here: the tweets it returns or   *)
(* the error it raises; its requests are those of the paginated crawls.     *)

\* get_screen_names_from_file(args.screen_name_file)
screen_names == <<"alice", "bob", "carol">>

\* len() of the tweets a crawl can return
CrawlResults == {0, 80, 300}

\* Lines of a [username].tweets file found in new_tweet_path at the start
ExistingLines == 7

\* The state of a file of old_tweet_path
OldFiles == {"missing", "empty", "tweets"}

\* The variables of the crawler the driver has built, which it leaves alone
built == <<accessor, pc, data, sent, crawler, follower_ids, paging, objects, kafka,
           search>>

\* The screen name the for loop is at
screen_name == screen_names[position]

\* main() of save_recent_tweets_to_json.py up to its for loop
main ==
  /\ driver_pc \in {"none", "completed", "aborted", "terminated"}
  /\ Len(previous_run) < MaxRuns
  /\ previous_run' = IF driver_pc = "none"
                       THEN previous_run
                       ELSE Append(previous_run, driver_pc)
  /\ driver_pc' = "loop"
  /\ position' = 1
  /\ crawled' = <<>>
  /\ e' = NoError
  /\ tweets' = 0
  /\ UNCHANGED <<built, old_tweet_files, new_tweet_files>>

\* Variant: the loop crawls an identity whose new file exists.
main_loop_overwrites ==
  /\ driver_pc = "loop"
  /\ IF position > Len(screen_names)
       THEN /\ driver_pc' = "completed"
            /\ UNCHANGED position
       ELSE IF old_tweet_files[screen_name] = "missing"
              THEN /\ driver_pc' = "loop"
                   /\ position' = position + 1
              ELSE IF old_tweet_files[screen_name] = "empty"
                     THEN /\ driver_pc' = "aborted"
                          /\ UNCHANGED position
                     ELSE /\ driver_pc' = "crawl"
                          /\ UNCHANGED position
  /\ UNCHANGED <<built, old_tweet_files, new_tweet_files, crawled, previous_run, e, tweets>>

\* The head of one turn of the for loop: the two os.path.exists tests and
\* get_most_recent_tweet_id_from_json_tweet_file, whose json.loads raises a
\* ValueError on the empty first line of an empty file
main_loop ==
  /\ driver_pc = "loop"
  /\ IF position > Len(screen_names)
       THEN /\ driver_pc' = "completed"
            /\ UNCHANGED position
       ELSE IF old_tweet_files[screen_name] = "missing"
              THEN /\ driver_pc' = "loop"
                   /\ position' = position + 1
              ELSE IF new_tweet_files[screen_name] # Absent
                     THEN /\ driver_pc' = "loop"
                          /\ position' = position + 1
                     ELSE IF old_tweet_files[screen_name] = "empty"
                            THEN /\ driver_pc' = "aborted"
                                 /\ UNCHANGED position
                            ELSE /\ driver_pc' = "crawl"
                                 /\ UNCHANGED position
  /\ UNCHANGED <<built, old_tweet_files, new_tweet_files, crawled, previous_run, e, tweets>>

\* Variant: every error of the crawl is logged and the loop goes on.
main_crawl_swallows_every_error ==
  /\ driver_pc = "crawl"
  /\ crawled' = Append(crawled, screen_name)
  /\ \/ \E n \in CrawlResults :
          /\ tweets' = n
          /\ e' = NoError
          /\ driver_pc' = "save"
          /\ UNCHANGED position
     \/ \E err \in TwythonErrors :
          /\ e' = err
          /\ driver_pc' = "loop"
          /\ position' = position + 1
          /\ UNCHANGED tweets
  /\ UNCHANGED <<built, old_tweet_files, new_tweet_files, previous_run>>

\* Variant: a 404 or 401 is taken for a crawl that found no tweet.
main_crawl_saves_on_404 ==
  /\ driver_pc = "crawl"
  /\ crawled' = Append(crawled, screen_name)
  /\ \/ \E n \in CrawlResults :
          /\ tweets' = n
          /\ e' = NoError
          /\ driver_pc' = "save"
          /\ UNCHANGED position
     \/ \E err \in TwythonErrors :
          /\ e' = err
          /\ IF err.error_code = 404 \/ err.error_code = 401
               THEN /\ driver_pc' = "save"
                    /\ tweets' = 0
                    /\ UNCHANGED position
               ELSE /\ driver_pc' = "aborted"
                    /\ UNCHANGED <<position, tweets>>
  /\ UNCHANGED <<built, old_tweet_files, new_tweet_files, previous_run>>

\* The try of the turn: get_all_timeline_tweets_for_screen_name_since and
\* the except clause
main_crawl ==
  /\ driver_pc = "crawl"
  /\ crawled' = Append(crawled, screen_name)
  /\ \/ \E n \in CrawlResults :
          /\ tweets' = n
          /\ e' = NoError
          /\ driver_pc' = "save"
          /\ UNCHANGED position
     \/ \E err \in TwythonErrors :
          /\ e' = err
          /\ IF err.error_code = 404 \/ err.error_code = 401
               THEN /\ driver_pc' = "loop"
                    /\ position' = position + 1
               ELSE /\ driver_pc' = "aborted"
                    /\ UNCHANGED position
          /\ UNCHANGED tweets
  /\ UNCHANGED <<built, old_tweet_files, new_tweet_files, previous_run>>

\* save_tweets_to_json_file: codecs.open(json_filename, "w", "utf-8")
save_tweets_to_json_file ==
  /\ driver_pc = "save"
  /\ new_tweet_files' = [new_tweet_files EXCEPT ![screen_name] = 0]
  /\ driver_pc' = "write"
  /\ UNCHANGED <<built, position, old_tweet_files, crawled, previous_run, e, tweets>>

\* Its for loop, one line per tweet, and json_file.close()
save_tweets_to_json_file_write ==
  /\ driver_pc = "write"
  /\ new_tweet_files' = [new_tweet_files EXCEPT ![screen_name] = tweets]
  /\ driver_pc' = "loop"
  /\ position' = position + 1
  /\ tweets' = 0
  /\ UNCHANGED <<built, old_tweet_files, crawled, previous_run, e>>

\* The process is terminated during a run (a signal, a power cut), at any
\* point of main(): a file opened by save_tweets_to_json_file is there, with
\* the lines that reached the disk before json_file.close()
terminated ==
  /\ driver_pc \in {"loop", "crawl", "save", "write"}
  /\ driver_pc' = "terminated"
  /\ IF driver_pc = "write"
       THEN \E lines \in {0, tweets \div 2} :
              new_tweet_files' = [new_tweet_files EXCEPT ![screen_name] = lines]
       ELSE UNCHANGED new_tweet_files
  /\ UNCHANGED <<built, position, old_tweet_files, crawled, previous_run, e, tweets>>

\* main() of trawler.py: get_console_info_logger is not among the names it
\* imports, so line 39 raises a NameError before any file or request
trawler_main ==
  /\ driver_pc \in {"none", "completed", "aborted", "terminated"}
  /\ Len(previous_run) < MaxRuns
  /\ previous_run' = IF driver_pc = "none"
                       THEN previous_run
                       ELSE Append(previous_run, driver_pc)
  /\ driver_pc' = "aborted"
  /\ position' = 0
  /\ crawled' = <<>>
  /\ e' = NoError
  /\ tweets' = 0
  /\ UNCHANGED <<built, old_tweet_files, new_tweet_files>>

\* A crawler built and idle
Built ==
  /\ now = 0
  /\ _current_rate_limit_window_ends = 0
  /\ api_calls_remaining_for_current_window = 0
  /\ pc = "idle"
  /\ backoff = InitialBackoff
  /\ retries = 0
  /\ current_time = 0
  /\ seconds_to_sleep = 0
  /\ e = NoError
  /\ data = 0
  /\ sent = "status"
  /\ tweets = 0
  /\ follower_ids = 0
  /\ NoMethod

\* The driver has not started; the files are those of earlier runs
BatchInit ==
  /\ Built
  /\ crawler = "CrawlTwitterTimelines"
  /\ driver_pc = "none"
  /\ position = 0
  /\ old_tweet_files \in [{screen_names[i] : i \in 1..Len(screen_names)} -> OldFiles]
  /\ new_tweet_files \in [{screen_names[i] : i \in 1..Len(screen_names)} -> {Absent, ExistingLines}]
  /\ crawled = <<>>
  /\ previous_run = <<>>
  /\ NoObjects
  /\ NoKafka
  /\ NoSearch

BatchNext ==
  \/ main
  \/ main_loop
  \/ main_crawl
  \/ save_tweets_to_json_file
  \/ save_tweets_to_json_file_write
  \/ trawler_main

\* The runs of the batch drivers over one set of files
BatchSpec == BatchInit /\ [][BatchNext]_vars

CrashNext ==
  \/ main
  \/ main_loop
  \/ main_crawl
  \/ save_tweets_to_json_file
  \/ save_tweets_to_json_file_write
  \/ terminated

\* The runs of save_recent_tweets_to_json.py, any of which may be terminated
CrashSpec == BatchInit /\ [][CrashNext]_vars

---------------------------------------------------------------------------
(* A search crawl of many pages: get_all_search_tweets_for_term with its   *)
(* tweets taken as their number, and its requests not recorded.           *)

\* len() of the 'statuses' a search request for count=100 returns
SearchBatches == {0, 1, 100}

\* get_all_search_tweets_for_term up to "iterations = 0"
get_all_search_tweets_for_term_first_batch ==
  /\ pc = "idle"
  /\ crawler = "SearchTwitterTimelines"
  /\ method' = "get_all_search_tweets_for_term"
  /\ sent' = "data"
  /\ iterations' = 0
  /\ \/ \E n \in SearchBatches :
          /\ tweets' = n
          /\ data' = n
          /\ pc' = IF n < SEARCH_MINIMUM_TWEETS_REQUIRED_FOR_MORE_API_CALLS
                     THEN "done" ELSE "crawling"
          /\ UNCHANGED e
     \/ \E err \in TwythonErrors :
          /\ e' = err
          /\ pc' = "failed"
          /\ UNCHANGED <<tweets, data>>
  /\ UNCHANGED <<accessor, crawler, follower_ids, since_id, max_id, pages, requests,
                 result, twitter_ids, amassed_users, responses, driver, objects,
                 kafka, gz_file>>

\* One turn of its while loop
get_all_search_tweets_for_term_rest ==
  /\ pc = "crawling"
  /\ method = "get_all_search_tweets_for_term"
  /\ iterations < MaxIterations
  /\ iterations' = iterations + 1
  /\ sent' = "data"
  /\ \/ \E n \in SearchBatches :
          /\ tweets' = tweets + n
          /\ data' = n
          /\ pc' = IF n < SEARCH_MINIMUM_TWEETS_REQUIRED_FOR_MORE_API_CALLS
                     THEN "done" ELSE "crawling"
          /\ dump_to_file(tweets')
          /\ UNCHANGED e
     \/ \E err \in TwythonErrors :
          /\ e' = err
          /\ pc' = "failed"
          /\ UNCHANGED <<tweets, data, gz_file>>
  /\ UNCHANGED <<accessor, crawler, follower_ids, method, since_id, max_id, pages,
                 requests, result, twitter_ids, amassed_users, responses, driver,
                 objects, kafka>>

\* A SearchTwitterTimelines built and idle, and no file [term].json.gz
SearchInit ==
  /\ Built
  /\ crawler = "SearchTwitterTimelines"
  /\ NoDriver
  /\ NoObjects
  /\ NoKafka
  /\ NoSearch

SearchNext ==
  \/ get_all_search_tweets_for_term_first_batch
  \/ get_all_search_tweets_for_term_rest
  \/ Finish

\* Search crawls, one after the other, of up to MaxIterations turns
SearchSpec == SearchInit /\ [][SearchNext]_vars

---------------------------------------------------------------------------
(* Several crawler objects built on one Twython client. The API counts the  *)
(* calls of a window per endpoint path; a get_data call is one step, and    *)
(* the status endpoint answers every request.                               *)

\* The crawler classes built here
ObjectCrawlers == {"FindFriendFollowers", "UserLookup"}

\* The RateLimitedTwitterEndpoint objects __init__ builds, in its order
endpoints_built(c) ==
  IF c = "FindFriendFollowers"
    THEN <<[object |-> "FindFriendFollowers._friend_endpoint", path |-> "friends/ids"],
           [object |-> "FindFriendFollowers._follower_endpoint", path |-> "followers/ids"],
           [object |-> "FindFriendFollowers._user_lookup_endpoint", path |-> "users/lookup"]>>
    ELSE <<[object |-> "UserLookup._user_lookup_endpoint", path |-> "users/lookup"]>>

\* Every endpoint object of the classes
AllEndpoints ==
  UNION {{endpoints_built(c)[i] : i \in 1..Len(endpoints_built(c))} : c \in ObjectCrawlers}

\* The endpoint paths they ask
Paths == {ep.path : ep \in AllEndpoints}

\* self._endpoint of an endpoint object
path_of(object) == (CHOOSE ep \in AllEndpoints : ep.object = object).path

\* dt.timedelta(minutes=7), in seconds
StatusCheckInterval == 420

\* Seconds between two looks at the clock
ClockSteps == {240}

\* The variables of the rest of the program
elsewhere == <<quota, backoff, retries, gate_locals, pc, e, data, sent, crawl,
               paging, driver, kafka, search>>

\* __init__ of a crawler class: a RateLimitedTwitterEndpoint of its own for
\* each endpoint, whose __init__ asks the status endpoint, and
\* last_checked_status = dt.datetime.now()
construct(c) ==
  /\ c \notin crawlers
  /\ crawlers' = crawlers \cup {c}
  /\ LET built_now == {endpoints_built(c)[i].object : i \in 1..Len(endpoints_built(c))}
     IN  trackers' = [o \in DOMAIN trackers \cup built_now |->
                        IF o \in built_now THEN true_remaining[path_of(o)] ELSE trackers[o]]
  /\ last_checked_status' =
       [k \in DOMAIN last_checked_status \cup {c} |->
          IF k = c THEN now ELSE last_checked_status[k]]
  /\ UNCHANGED <<now, true_remaining, data_requests, polled, calls_remaining, elsewhere>>

FindFriendFollowers__init__ == construct("FindFriendFollowers")

UserLookup__init__ == construct("UserLookup")

\* The window of an endpoint path ends
window_reset ==
  /\ \E p \in Paths :
       /\ data_requests[p] > 0
       /\ true_remaining' = [true_remaining EXCEPT ![p] = MaxRemaining]
       /\ data_requests' = [data_requests EXCEPT ![p] = 0]
  /\ UNCHANGED <<now, crawlers, trackers, last_checked_status, polled, calls_remaining, elsewhere>>

\* get_data of an endpoint object with no call left on its counter:
\* _sleep_if_rate_limit_reached sleeps past the end of the window and asks
\* the status endpoint
endpoint_sleep ==
  /\ \E o \in DOMAIN trackers :
       /\ rate_limit_reached(trackers[o])
       /\ true_remaining' = [true_remaining EXCEPT ![path_of(o)] = MaxRemaining]
       /\ data_requests' = [data_requests EXCEPT ![path_of(o)] = 0]
       /\ trackers' = [trackers EXCEPT ![o] = true_remaining'[path_of(o)]]
  /\ UNCHANGED <<now, crawlers, last_checked_status, polled, calls_remaining, elsewhere>>

\* get_data of an endpoint object with a call left on its counter: the
\* counter is decremented and the request sent; the API answers it while
\* calls remain in the window, and with a 429 after that, upon which the
\* object asks the status endpoint
endpoint_request ==
  /\ \E o \in DOMAIN trackers :
       /\ ~rate_limit_reached(trackers[o])
       /\ data_requests' = [data_requests EXCEPT ![path_of(o)] = @ + 1]
       /\ IF true_remaining[path_of(o)] >= 1
            THEN /\ true_remaining' = [true_remaining EXCEPT ![path_of(o)] = @ - 1]
                 /\ trackers' = [trackers EXCEPT ![o] = consume(@)]
            ELSE /\ trackers' = [trackers EXCEPT ![o] = true_remaining[path_of(o)]]
                 /\ UNCHANGED true_remaining
  /\ UNCHANGED <<now, crawlers, last_checked_status, polled, calls_remaining, elsewhere>>

\* min() of the counters of the endpoint objects
minimum(counters) ==
  CHOOSE m \in counters : \A n \in counters : m <= n

\* api_calls_remaining of a crawler object. UserLookup hands min() its one
\* counter, an int, which raises TypeError: 'int' object is not iterable
api_calls_remaining(c) ==
  /\ c \in crawlers
  /\ LET owned == endpoints_built(c)
         mine == {owned[i].object : i \in 1..Len(owned)}
     IN  /\ IF now - last_checked_status[c] > StatusCheckInterval
              THEN /\ last_checked_status' = [last_checked_status EXCEPT ![c] = now]
                   /\ trackers' = [o \in DOMAIN trackers |->
                                     IF o \in mine THEN true_remaining[path_of(o)]
                                                   ELSE trackers[o]]
                   /\ polled' = [i \in 1..Len(owned) |-> owned[i].object]
              ELSE /\ polled' = <<>>
                   /\ UNCHANGED <<last_checked_status, trackers>>
         /\ calls_remaining' =
              IF c = "UserLookup"
                THEN [returned |-> None, raised |-> "TypeError"]
                ELSE [returned |-> minimum({trackers'[o] : o \in mine}), raised |-> ""]
  /\ UNCHANGED <<now, crawlers, true_remaining, data_requests, elsewhere>>

FindFriendFollowers_api_calls_remaining == api_calls_remaining("FindFriendFollowers")

UserLookup_api_calls_remaining == api_calls_remaining("UserLookup")

\* Time passes between two calls made on the crawler objects
clock ==
  /\ \E secs \in ClockSteps : time_sleep(secs)
  /\ UNCHANGED <<objects, elsewhere>>

\* The client is authenticated and no crawler object is built
ObjectsInit ==
  /\ Built
  /\ crawler = "UserLookup"
  /\ NoDriver
  /\ NoKafka
  /\ NoSearch
  /\ crawlers = {}
  /\ trackers = <<>>
  /\ true_remaining = [p \in Paths |-> MaxRemaining]
  /\ data_requests = [p \in Paths |-> 0]
  /\ last_checked_status = <<>>
  /\ polled = <<>>
  /\ calls_remaining = NoCall

ObjectsNext ==
  \/ FindFriendFollowers__init__
  \/ UserLookup__init__
  \/ window_reset
  \/ endpoint_sleep
  \/ endpoint_request
  \/ FindFriendFollowers_api_calls_remaining
  \/ UserLookup_api_calls_remaining
  \/ clock

\* The crawler objects of one process and the calls made on them
ObjectsSpec == ObjectsInit /\ [][ObjectsNext]_vars

---------------------------------------------------------------------------
(* TrawlerKafka. A Python value is a record: kind "dict" for the tweet       *)
(* {"id": d} with ids = <<d>>, kind "list" for a list of such tweets, kind  *)
(* "int" for the number d. A str is the sequence of its characters.         *)

\* The ids of the tweets sent
TweetIds == {1, 2}

\* The tweet {"id": d}
tweet_of(d) == [kind |-> "dict", ids |-> <<d>>]

\* The list of the tweets with these ids
list_of_tweets(ds) == [kind |-> "list", ids |-> ds]

\* The lists of tweets a send method is called with
TweetLists == UNION {[1..n -> TweetIds] : n \in 0..MaxTweets}

\* str(d) of a one-digit number
digit(d) == <<"0", "1", "2", "3", "4", "5", "6", "7", "8", "9">>[d + 1]

\* json.dumps of a tweet
dumps_tweet(d) == <<"{", "\"", "i", "d", "\"", ":", " ", digit(d), "}">>

\* ", ".join of the dumps of the tweets
joined(ds) ==
  LET RECURSIVE join(_)
      join(rest) == IF rest = <<>>
                      THEN <<>>
                      ELSE IF Len(rest) = 1
                             THEN dumps_tweet(rest[1])
                             ELSE dumps_tweet(rest[1]) \o <<",", " ">> \o join(Tail(rest))
  IN  join(ds)

\* json.dumps(value)
json_dumps(value) ==
  IF value.kind = "dict"
    THEN dumps_tweet(value.ids[1])
    ELSE IF value.kind = "list"
           THEN <<"[">> \o joined(value.ids) \o <<"]">>
           ELSE <<digit(value.ids[1])>>

\* The values whose JSON text can be on the topic
Decodable ==
  {tweet_of(d) : d \in TweetIds}
    \cup {list_of_tweets(ds) : ds \in TweetLists}
    \cup {[kind |-> "int", ids |-> <<d>>] : d \in TweetIds}

\* What json.loads raises on a text that is no JSON document
ValueError == [kind |-> "ValueError", ids |-> <<>>]

\* json.loads(text)
json_loads(text) ==
  IF \E value \in Decodable : json_dumps(value) = text
    THEN CHOOSE value \in Decodable : json_dumps(value) = text
    ELSE ValueError

\* The messages producer.produce(arg) puts on the topic when arg is a list
\* of str: one per element where produce takes the messages of a batch;
\* where it takes one message, a list is no message and it raises TypeError
produce_list(api, texts) ==
  IF api = "messages" THEN [raised |-> "", messages |-> texts]
                      ELSE [raised |-> "TypeError", messages |-> <<>>]

\* The same when arg is a str: where produce takes the messages of a batch
\* it iterates over arg, and each character is a message
produce_str(api, text) ==
  IF api = "messages"
    THEN [raised |-> "", messages |-> [i \in 1..Len(text) |-> <<text[i]>>]]
    ELSE [raised |-> "", messages |-> <<text>>]

\* The variables of the rest of the program
outside_kafka == <<accessor, pc, e, data, sent, crawl, paging, driver, objects,
                   search>>

\* send_individual_tweets(tweets): producer.produce([json.dumps(tweet)])
\* for each tweet, up to the first call that raises
send_individual_tweets ==
  /\ kafka_pc = "connected"
  /\ Len(pushed) < MaxSends
  /\ \E tweets_sent \in TweetLists :
       LET produced == [i \in 1..Len(tweets_sent) |->
                          produce_list(produce_api, <<json_dumps(tweet_of(tweets_sent[i]))>>)]
       IN  /\ pushed' = Append(pushed, [mode |-> "individual", tweets |-> tweets_sent])
           /\ IF \E i \in 1..Len(produced) : produced[i].raised # ""
                THEN /\ kafka_pc' = "send_raised"
                     /\ UNCHANGED messages
                ELSE /\ messages' = messages \o
                          [i \in 1..Len(produced) |-> produced[i].messages[1]]
                     /\ UNCHANGED kafka_pc
  /\ UNCHANGED <<produce_api, yielded, outside_kafka>>

\* send_bulk_tweets(tweets): producer.produce(json.dumps(tweets))
send_bulk_tweets ==
  /\ kafka_pc = "connected"
  /\ Len(pushed) < MaxSends
  /\ \E tweets_sent \in TweetLists :
       LET produced == produce_str(produce_api, json_dumps(list_of_tweets(tweets_sent)))
       IN  /\ pushed' = Append(pushed, [mode |-> "bulk", tweets |-> tweets_sent])
           /\ messages' = messages \o produced.messages
  /\ UNCHANGED <<produce_api, yielded, kafka_pc, outside_kafka>>

\* One turn of the for loop of get_tweets: the consumer hands over None,
\* which is passed over, or the next message, which is decoded and yielded
get_tweets ==
  /\ kafka_pc = "connected"
  /\ \/ UNCHANGED <<yielded, kafka_pc>>
     \/ /\ Len(yielded) < Len(messages)
        /\ LET message == messages[Len(yielded) + 1]
               tweet == json_loads(message)
           IN  IF tweet = ValueError
                 THEN /\ kafka_pc' = "get_raised"
                      /\ UNCHANGED yielded
                 ELSE /\ yielded' = Append(yielded, tweet)
                      /\ UNCHANGED kafka_pc
  /\ UNCHANGED <<produce_api, messages, pushed, outside_kafka>>

\* The iteration over self.consumer ends, and get_tweets with it
get_tweets_ends ==
  /\ kafka_pc = "connected"
  /\ kafka_pc' = "ended"
  /\ UNCHANGED <<produce_api, messages, yielded, pushed, outside_kafka>>

\* TrawlerKafka(host, port) on an empty topic, with either pykafka
KafkaInit ==
  /\ Built
  /\ crawler = "CrawlTwitterTimelines"
  /\ NoDriver
  /\ NoObjects
  /\ NoSearch
  /\ produce_api \in {"messages", "message"}
  /\ messages = <<>>
  /\ yielded = <<>>
  /\ pushed = <<>>
  /\ kafka_pc = "connected"

KafkaNext ==
  \/ send_individual_tweets
  \/ send_bulk_tweets
  \/ get_tweets
  \/ get_tweets_ends

\* The producer and the consumer of one topic
KafkaSpec == KafkaInit /\ [][KafkaNext]_vars

---------------------------------------------------------------------------
(* The claims *)

BackoffSleeps == {"sleep_429", "sleep_misbehaving", "sleep_empty"}

\* C1: a data request is sent to the API only from a state whose tracked
\* remaining count is at least 1 before the decrement that precedes the
\* request; none is sent while the count is 0.
C1_RequestOnlyWithCallsRemaining ==
  [][sent' = "data" =>
       /\ pc = "request"
       /\ api_calls_remaining_for_current_window >= 1
       /\ api_calls_remaining_for_current_window' =
            api_calls_remaining_for_current_window - 1]_vars

\* A request has been sent with exactly one call remaining.
C1_Witness ==
  /\ pc = "returned"
  /\ sent = "data"
  /\ api_calls_remaining_for_current_window = 0

\* C2: the tracked remaining count is never negative; every attempt, a
\* retry after a failure included, takes exactly 1 from it when the request
\* is sent; a failed request gives nothing back; nothing else changes the
\* count but a refresh from the status endpoint.
C2_PessimisticAccounting ==
  /\ [](api_calls_remaining_for_current_window >= 0)
  /\ [][sent' = "data" =>
          api_calls_remaining_for_current_window' =
            api_calls_remaining_for_current_window - 1]_vars
  /\ [][sent' \notin {"data", "status"} =>
          api_calls_remaining_for_current_window' =
            api_calls_remaining_for_current_window]_vars
  /\ [][(pc \in BackoffSleeps \cup {"raised"} /\ sent' # "status") =>
          api_calls_remaining_for_current_window' =
            api_calls_remaining_for_current_window]_vars

\* The retried request has failed as well: both attempts are spent.
C2_Witness ==
  /\ pc = "sleep_misbehaving"
  /\ retries = 1
  /\ sent = "data"
  /\ api_calls_remaining_for_current_window = 0
  /\ now = InitialBackoff

\* C3: entered with remaining < 1 and a window that ends at or after the
\* current time, the gate sleeps (window end - now) + 15 seconds, and asks
\* the status endpoint only when that sleep is over: not before, not
\* during.
C3_SleepsUntilWindowEndsPlusPadding ==
  /\ []((pc \in {"gate_sleep", "gate_refresh"}
            /\ _current_rate_limit_window_ends >= current_time)
          => seconds_to_sleep = (_current_rate_limit_window_ends - current_time) + 15)
  /\ [][(pc = "gate" /\ api_calls_remaining_for_current_window < 1) =>
          /\ pc' = "gate_sleep"
          /\ current_time' = now
          /\ sent' = "none"
          /\ UNCHANGED <<now, quota>>]_vars
  /\ [][pc = "gate_sleep" =>
          /\ pc' = "gate_refresh"
          /\ now' = now + seconds_to_sleep
          /\ sent' = "none"
          /\ UNCHANGED quota]_vars
  /\ [][pc = "gate_refresh" =>
          /\ sent' = "status"
          /\ now = current_time + seconds_to_sleep
          /\ now' = now]_vars

\* The window ends 5 seconds after the gate is entered: 20 seconds slept.
C3_Witness ==
  /\ pc = "gate_refresh"
  /\ _current_rate_limit_window_ends = current_time + 5
  /\ seconds_to_sleep = 20
  /\ now = current_time + 20

\* C4: entered with remaining < 1 and a window that has already ended, by
\* any amount, the gate sleeps exactly 60 seconds: never zero, never less
\* than the 15 second margin.
C4_ExpiredWindowSleeps60 ==
  (pc = "gate_sleep" /\ _current_rate_limit_window_ends < current_time)
    => seconds_to_sleep = 60

\* C5: the gate loops sleep, refresh, check; it returns only with
\* remaining >= 1; entered with remaining >= 1 it returns at once, without
\* a sleep and without a status request; once the status endpoint has
\* reported remaining >= 1 the gate returns.
C5_GateLoop ==
  /\ [][(pc = "gate" /\ api_calls_remaining_for_current_window >= 1) =>
          /\ pc' = "request"
          /\ sent' = "none"
          /\ UNCHANGED <<now, quota>>]_vars
  /\ [](pc = "request" => api_calls_remaining_for_current_window >= 1)
  /\ [][(pc = "gate" /\ api_calls_remaining_for_current_window < 1) =>
          pc' = "gate_sleep"]_vars
  /\ [][pc = "gate_sleep" => pc' = "gate_refresh"]_vars
  /\ [][pc = "gate_refresh" =>
          (sent' = "status" /\ pc' \in {"gate", "raised"})]_vars
  /\ ((pc = "gate" /\ sent = "status"
          /\ api_calls_remaining_for_current_window >= 1) ~> (pc = "request"))

\* The gate has slept and the refresh after the sleep reports a call.
C5_Witness ==
  /\ pc = "gate"
  /\ sent = "status"
  /\ retries = 0
  /\ now > 0
  /\ api_calls_remaining_for_current_window >= 1

\* C6: within one get_data the sleep before the n-th retry is
\* 60 * 2^(n-1) seconds whatever the retried failures are, with no cap,
\* and every new get_data starts again at 60 seconds.
C6_BackoffDoubles ==
  /\ [](backoff = 60 * (2^retries))
  /\ [][(pc \in BackoffSleeps) => now' = now + 60 * (2^retries)]_vars
  /\ [][retries' = retries + 1 =>
          (pc \in {"refresh_429", "sleep_misbehaving", "sleep_empty"} /\ pc' = "gate")]_vars
  /\ [][(pc \in {"idle", "returned"} /\ pc' = "gate") =>
          (backoff' = 60 /\ retries' = 0)]_vars

\* Three retries have been made: 60, 120 and 240 seconds slept.
C6_Witness ==
  /\ pc = "gate"
  /\ retries = 3
  /\ backoff = 480
  /\ now >= 420

\* C7: on a 429 the accessor sleeps for the current backoff, then asks the
\* status endpoint, then retries with the backoff doubled; the retry goes
\* through the gate, so that no data request is sent before the refreshed
\* count is >= 1.
C7_TooManyRequests ==
  /\ [][(pc = "request" /\ e'.error_code = 429) =>
          (pc' = "sleep_429" /\ sent' = "data")]_vars
  /\ [][pc = "sleep_429" =>
          /\ pc' = "refresh_429"
          /\ now' = now + backoff
          /\ sent' = "none"
          /\ UNCHANGED <<quota, backoff>>]_vars
  /\ [][pc = "refresh_429" =>
          /\ sent' = "status"
          /\ now' = now
          /\ \/ pc' = "raised"
             \/ (pc' = "gate" /\ backoff' = 2 * backoff)]_vars
  /\ [][pc' = "request" =>
          /\ pc = "gate"
          /\ api_calls_remaining_for_current_window' >= 1
          /\ UNCHANGED quota]_vars
  /\ [][sent' = "data" => pc = "request"]_vars

\* A second 429 in a row: 60 seconds slept, refreshed, retried, and 120
\* seconds slept before the next refresh.
C7_Witness ==
  /\ pc = "refresh_429"
  /\ e.error_code = 429
  /\ retries = 1
  /\ now = 180

\* C8, as the spec states it: every 5xx status, 500 included, and the empty
\* response are retried and never raised to the caller of get_data.
C8_Every5xxRetried ==
  (pc = "raised" /\ sent = "data")
    => (e.error_code \notin {500, 502, 503, 504} /\ e.msg # BadStatusLine)

\* C8, amended: 502, 503, 504 and the empty response are retried by the
\* sleep-and-double-backoff loop and never raised to the caller of
\* get_data (500 is raised).
C8_TransientRetried ==
  /\ []((pc = "raised" /\ sent = "data")
          => (e.error_code \notin {502, 503, 504} /\ e.msg # BadStatusLine))
  /\ [][(pc = "request"
           /\ (e'.error_code \in {502, 503, 504} \/ e'.msg = BadStatusLine)) =>
            pc' \in {"sleep_misbehaving", "sleep_empty"}]_vars
  /\ [][(pc \in {"sleep_misbehaving", "sleep_empty"}) =>
          /\ pc' = "gate"
          /\ now' = now + backoff
          /\ backoff' = 2 * backoff
          /\ sent' = "none"
          /\ UNCHANGED quota]_vars

\* A 504 met on the second retry is about to be slept on.
C8_Witness ==
  /\ pc = "sleep_misbehaving"
  /\ e.error_code = 504
  /\ retries = 2

\* C9, as the spec states it: a 404 or 401 answer to a data request is not
\* raised by the accessor.
C9_EntityUnavailableNotRaised ==
  (pc = "raised" /\ sent = "data") => e.error_code \notin {404, 401}

\* C9, amended: on a 404 or 401 the accessor does not retry and raises the
\* error to its caller; the timeline crawl lets it go on to its own caller,
\* the follower id lookup catches it and returns an empty list.
C9_EntityUnavailableRaised ==
  /\ [][(pc = "request" /\ e'.error_code \in {404, 401}) =>
          /\ pc' = "raised"
          /\ retries' = retries
          /\ UNCHANGED <<now, _current_rate_limit_window_ends>>]_vars
  /\ [][(pc = "raised" /\ crawler = "CrawlTwitterTimelines") =>
          (pc' = "failed" /\ e' = e)]_vars
  /\ [][(pc = "raised" /\ crawler = "FindFollowers"
           /\ e.error_code \in {404, 401}) =>
            (pc' = "done" /\ follower_ids' = 0)]_vars

\* The timeline endpoint has raised the 404 of its request.
C9_Witness ==
  /\ pc = "raised"
  /\ sent = "data"
  /\ crawler = "CrawlTwitterTimelines"
  /\ e.error_code = 404

\* C10: a failure that is neither a 429, nor 502, 503, 504, nor the empty
\* response is raised to the caller after the one attempt that met it: no
\* sleep, no status request, no further request.
C10_OtherErrorsRaised ==
  /\ [][(pc = "request" /\ e' # NoError
           /\ e'.error_code \notin {429, 502, 503, 504}
           /\ e'.msg # BadStatusLine) =>
            /\ pc' = "raised"
            /\ sent' = "data"
            /\ retries' = retries
            /\ UNCHANGED <<now, _current_rate_limit_window_ends>>]_vars
  /\ [][pc = "raised" =>
          /\ pc' \in {"done", "failed"}
          /\ sent' = "none"
          /\ UNCHANGED <<now, quota, retries>>]_vars

\* A 500 met on the first retry has been raised.
C10_Witness ==
  /\ pc = "raised"
  /\ sent = "data"
  /\ e.error_code = 500
  /\ retries = 1

\* The positions inside a get_data call
InGetData ==
  {"gate", "gate_sleep", "gate_refresh", "request", "sleep_429", "refresh_429",
   "sleep_misbehaving", "sleep_empty"}

\* The model stops following a call whose next sleep would end after
\* MaxTime or whose retries have reached MaxRetries.
Stopped ==
  \/ pc = "gate_sleep" /\ now + seconds_to_sleep > MaxTime
  \/ pc \in BackoffSleeps /\ (retries >= MaxRetries \/ now + backoff > MaxTime)

\* C11 as the spec has it: no failure it calls transient (429, any 5xx, the
\* empty response) ever reaches the caller of get_data, whichever request
\* of the call it came from.
C11_TransientNeverSurfaces ==
  pc = "raised" =>
    ~(\/ e.error_code = 429
      \/ e.error_code \in 500..599
      \/ e.msg = BadStatusLine)

\* C11: a get_data call raises only when a status request has failed or a
\* data request has failed with an error that is none of 429, 502, 503, 504
\* and the empty response; it returns only what a successful data request
\* gave; and when the status endpoint does not report 0 calls for ever, every
\* call eventually returns or raises (or runs past the bounds of the model),
\* so a call whose status requests succeed and whose data requests fail only
\* with 429, 502, 503, 504 or the empty response, finitely often, returns.
C11_EventuallyReturns ==
  /\ [][(pc' = "raised" /\ pc # "raised") =>
          (\/ sent' = "status" /\ pc \in {"gate_refresh", "refresh_429"}
           \/ /\ sent' = "data"
              /\ e'.error_code \notin {429, 502, 503, 504}
              /\ e'.msg # BadStatusLine)]_vars
  /\ [][(pc' = "returned" /\ pc # "returned") =>
          (pc = "request" /\ sent' = "data" /\ e' = NoError /\ data' \in PageLengths)]_vars
  /\ [][(pc \in InGetData) => (pc' \in InGetData \cup {"returned", "raised"})]_vars
  /\ ((pc \in InGetData) ~> (pc \in {"returned", "raised"} \/ Stopped))

C11_Witness ==
  /\ pc = "returned"
  /\ sent = "data"
  /\ retries = 3
  /\ backoff = 480
  /\ data = 100

\* C12: a failed status request is never tried again: inside the quota
\* gate's loop and inside the 429 branch the failure takes get_data straight
\* to raising it, with no sleep, no change of the quota state, the backoff or
\* the retry count; after the raise the call sends no further request; a
\* failed public refresh goes to its caller the same way.
C12_RefreshFailurePropagates ==
  /\ [][(pc \in {"gate_refresh", "refresh_429"}) =>
          (/\ sent' = "status"
           /\ \/ pc' = "gate"
              \/ /\ pc' = "raised"
                 /\ e' \in TwythonErrors
                 /\ now' = now
                 /\ UNCHANGED <<quota, backoff, retries>>)]_vars
  /\ [][(pc = "raised") =>
          (/\ pc' \in {"failed", "done"}
           /\ sent' = "none"
           /\ e' = e
           /\ now' = now
           /\ UNCHANGED quota)]_vars
  /\ [][(pc = "idle" /\ sent' = "status") =>
          (\/ pc' = "idle" /\ e' = NoError
           \/ pc' = "failed" /\ e' \in TwythonErrors /\ UNCHANGED quota)]_vars

C12_Witness ==
  /\ pc = "raised"
  /\ sent = "status"
  /\ e.error_code = 503
  /\ backoff = 120
  /\ crawler = "CrawlTwitterTimelines"

\* The paginated crawls
TimelineMethods ==
  {"get_all_timeline_tweets_for_id", "get_all_timeline_tweets_for_id_since",
   "get_all_timeline_tweets_for_id_between_ids"}
PaginatedMethods == TimelineMethods \cup {"get_all_search_tweets_for_term"}

\* len() of each page of ps
page_lengths(ps) == [i \in 1..Len(ps) |-> ps[i].len]

\* C13: every request of a timeline crawl asks for count=200; each request
\* appends its page; every page before the last fetched has at least 100
\* tweets; the crawl returns exactly when a page has fewer than 100, and
\* returns the pages fetched up to and including that one.
C13_TimelineStopsAtFirstShortPage ==
  /\ [](method \in TimelineMethods =>
         /\ \A i \in 1..Len(requests) : requests[i].count = 200
         /\ \A i \in 1..(Len(pages) - 1) : pages[i].len >= 100
         /\ pc \in {"crawling", "done"} => Len(pages) = Len(requests)
         /\ pc = "failed" => Len(pages) = Len(requests) - 1
         /\ (pc = "crawling" /\ pages # <<>>) => pages[Len(pages)].len >= 100
         /\ pc = "done" => (pages[Len(pages)].len < 100 /\ result = pages))
  /\ [][(method \in TimelineMethods /\ pc = "crawling") =>
          Len(requests') = Len(requests) + 1]_vars

C13_Witness ==
  /\ method = "get_all_timeline_tweets_for_id"
  /\ pc = "done"
  /\ Len(requests) = 3
  /\ page_lengths(result) = <<200, 200, 80>>
  /\ total_length(result) = 480

C15_CursorFromPrecedingPage ==
  method \in PaginatedMethods =>
    \A i \in 2..Len(requests) :
       /\ pages[i - 1].len >= 1
       /\ requests[i].max_id = pages[i - 1].last - 1

C15_Witness ==
  /\ method = "get_all_timeline_tweets_for_id_since"
  /\ Len(requests) = 3
  /\ requests[1].max_id = 900
  /\ pages[1].last = 699
  /\ requests[2].max_id = 698
  /\ requests[3].max_id = pages[2].last - 1
  /\ requests[3].max_id < 600

\* C16: a range crawl sends the caller's since_id and max_id in its first
\* request, the same since_id in every later request, and a smaller max_id
\* in each request than in the one before.
C16_RangeKeepsSinceId ==
  /\ [][(pc = "idle" /\ method' = "get_all_timeline_tweets_for_id_between_ids") =>
          (/\ Len(requests') = 1
           /\ requests'[1].since_id = since_id'
           /\ requests'[1].max_id = max_id'
           /\ since_id' \in SinceIds
           /\ max_id' \in CallerMaxIds)]_vars
  /\ [][(/\ pc = "crawling"
         /\ method = "get_all_timeline_tweets_for_id_since"
         /\ requests = <<>>) =>
          (/\ max_id \in CallerMaxIds
           /\ Len(requests') = 1
           /\ requests'[1].since_id = since_id
           /\ requests'[1].max_id = max_id)]_vars
  /\ [][(pc = "crawling") => since_id' = since_id]_vars
  /\ []((method \in {"get_all_timeline_tweets_for_id_between_ids",
                     "get_all_timeline_tweets_for_id_since"}) =>
          /\ \A i \in 1..Len(requests) : requests[i].since_id = since_id
          /\ \A i \in 2..Len(requests) :
               /\ requests[i].max_id # Absent
               /\ requests[i - 1].max_id # Absent =>
                    requests[i].max_id < requests[i - 1].max_id)

C16_Witness ==
  /\ method = "get_all_timeline_tweets_for_id_between_ids"
  /\ Len(requests) = 3
  /\ requests[1].max_id = 900
  /\ requests[3].max_id < requests[2].max_id
  /\ requests[2].max_id < 900
  /\ \A i \in 1..3 : requests[i].since_id = 500

\* C17 as the spec has it: the first request of a search crawl carries the
\* caller's max_id, and no max_id when the caller gave none.
C17_SearchFirstRequestCarriesMaxId ==
  (method = "get_all_search_tweets_for_term" /\ Len(requests) = 1) =>
     requests[1].max_id = (IF max_id = None THEN Absent ELSE max_id)

\* C18: the tweets of a paginated crawl grow only by a page appended at the
\* end; what the crawl returns is the pages in the order they were fetched;
\* with each page newest first and no tweet newer than the max_id asked
\* for, the ids decrease strictly from each tweet to the next, across pages
\* too, so no tweet is there twice.
C18_PagesInFetchOrder ==
  /\ [][(method' \in PaginatedMethods /\ pages' # pages /\ pages' # <<>>) =>
          (/\ Len(pages') = Len(pages) + 1
           /\ SubSeq(pages', 1, Len(pages)) = pages
           /\ pages'[Len(pages')] \in api_pages(requests'[Len(requests')]))]_vars
  /\ [](method \in PaginatedMethods =>
         /\ pc = "done" => result = pages
         /\ \A i \in 1..Len(pages) :
              pages[i].len >= 1 => pages[i].first - pages[i].last >= pages[i].len - 1
         /\ \A i, j \in 1..Len(pages) :
              (i < j /\ pages[i].len >= 1 /\ pages[j].len >= 1) =>
                 pages[i].last > pages[j].first)

C18_Witness ==
  /\ method = "get_all_timeline_tweets_for_id"
  /\ pc = "done"
  /\ page_lengths(result) = <<200, 100, 80>>
  /\ result[1].last > result[2].first
  /\ result[2].last > result[3].first

\* C19 as the spec has it: the pages are handed to the consumer one by one,
\* each before the next page is requested.
C19_StreamingOffered ==
  (method \in PaginatedMethods /\ pc = "crawling") => result = pages

\* C19: a paginated crawl hands nothing to its caller until it returns; it
\* returns once, after its last request, with all the pages; a crawl that
\* ends with an error hands over none of the pages it has fetched.
C19_BatchOnly ==
  /\ [](method \in PaginatedMethods =>
         /\ pc \in {"crawling", "failed"} => result = <<>>
         /\ pc = "done" => (result = pages /\ Len(requests) = Len(pages)))
  /\ [][(method \in PaginatedMethods /\ pc = "done") =>
          (pc' = "idle" /\ requests' = <<>>)]_vars

C19_Witness ==
  /\ method = "get_all_search_tweets_for_term"
  /\ pc = "failed"
  /\ Len(pages) = 2
  /\ Len(requests) = 3
  /\ total_length(pages) = 200
  /\ result = <<>>

\* C20: lookup_users sends one request for each run of up to 100 ids of
\* twitter_ids, in order: request i carries ids 100(i-1)+1 .. min(100i, n)
\* of the list and no fill value; it ends after ceil(n/100) requests, none
\* for an empty list; it returns the answers joined in the order of the
\* requests.
C20_LookupChunks ==
  /\ [](method = "lookup_users" =>
         LET n == Len(twitter_ids)
             calls == (n + 99) \div 100
         IN  /\ Len(requests) <= calls
             /\ \A i \in 1..Len(requests) :
                  /\ requests[i].user_id =
                       SubSeq(twitter_ids, 100 * (i - 1) + 1,
                              IF 100 * i < n THEN 100 * i ELSE n)
                  /\ \A j \in 1..Len(requests[i].user_id) :
                       requests[i].user_id[j] # None
             /\ pc = "done" => (Len(requests) = calls /\ result = amassed_users))
  /\ [][(method = "lookup_users" /\ pc = "looking_up" /\ pc' = "looking_up") =>
          (\E users \in users_lookup(requests'[Len(requests')].user_id) :
              amassed_users' = amassed_users \o users)]_vars

C20_Witness ==
  /\ method = "lookup_users"
  /\ pc = "done"
  /\ Len(twitter_ids) = 250
  /\ Len(requests) = 3
  /\ Len(requests[1].user_id) = 100
  /\ Len(requests[2].user_id) = 100
  /\ Len(requests[3].user_id) = 50
  /\ result = twitter_ids

\* The id lookups that answer a 404 or 401 with an empty list
IdLookups ==
  {"get_ff_ids_for_screen_name", "get_ff_ids_for_id", "get_follower_ids_for_id",
   "get_followee_ids_for_screen_name", "get_followee_ids_for_id"}

\* The crawlers they belong to
IdCrawlers == {"FindFriendFollowers", "FindFollowers", "FindFollowees"}

\* C21: a 404 or 401 on any id request of a friend, follower or followee
\* lookup, by screen name or by id, makes the lookup return an empty list
\* without raising, also when an earlier request of the lookup had
\* succeeded, whose ids are discarded; any other error is raised; and the
\* next lookup on the same crawler proceeds as from a fresh one.
C21_EntityUnavailableGivesEmptyList ==
  /\ [][(method' \in IdLookups /\ requests' # requests /\ e' # NoError) =>
          IF e'.error_code \in {404, 401}
            THEN pc' = "done" /\ result' = <<>>
            ELSE pc' = "failed"]_vars
  /\ [][(method' \in IdLookups /\ requests' # requests /\ e' = NoError) =>
          pc' \in {"friends_fetched", "done"}]_vars
  /\ [][(method \in IdLookups /\ pc \in {"done", "failed"}) =>
          (pc' = "idle" /\ NoMethod' /\ e' = NoError)]_vars
  /\ [](pc = "idle" /\ crawler = "FindFriendFollowers"
          => ENABLED get_ff_ids_for_id /\ ENABLED get_ff_ids_for_screen_name)
  /\ [](pc = "idle" /\ crawler = "FindFollowers" => ENABLED get_follower_ids_for_id)
  /\ [](pc = "idle" /\ crawler = "FindFollowees"
          => ENABLED get_followee_ids_for_id /\ ENABLED get_followee_ids_for_screen_name)

\* The followers/ids request of a friend-follower lookup has failed with a
\* 404 after its friends/ids request had returned ids: the result is empty.
C21_Witness ==
  /\ method = "get_ff_ids_for_id"
  /\ pc = "done"
  /\ Len(requests) = 2
  /\ Len(responses) = 1
  /\ responses[1].ids # <<>>
  /\ e.error_code = 404
  /\ result = <<>>

\* The lookups made of requests to an endpoint that returns ids or members
SinglePageLookups == IdLookups \cup {"get_list_members_by_list_id"}

\* The request a lookup sends to each of its endpoints
endpoints_of(m) ==
  IF m \in {"get_ff_ids_for_screen_name", "get_ff_ids_for_id"}
    THEN <<"friends/ids", "followers/ids">>
    ELSE IF m = "get_list_members_by_list_id"
           THEN <<"lists/members">>
           ELSE <<"followers/ids">>

\* C22: an id lookup and a list-member lookup are single-page: a lookup that
\* returns has sent exactly one request to each of its id-source endpoints,
\* whatever next_cursor the responses carried, and its result is made of
\* the ids of those first pages alone.
C22_SinglePage ==
  /\ [](method \in SinglePageLookups =>
          /\ Len(requests) <= Len(endpoints_of(method))
          /\ \A i \in 1..Len(requests) :
               requests[i].endpoint = endpoints_of(method)[i])
  /\ []((method \in SinglePageLookups /\ pc = "done" /\ e = NoError) =>
          /\ Len(requests) = Len(endpoints_of(method))
          /\ Len(responses) = Len(requests)
          /\ \A i \in 1..Len(result) :
               \E j \in 1..Len(responses[1].ids) : result[i] = responses[1].ids[j])
  /\ [][(method \in SinglePageLookups /\ pc = "done") => requests' = <<>>]_vars

\* A lookup has returned the ids of a page whose next_cursor named a
\* further page, after one request.
C22_Witness ==
  /\ method = "get_follower_ids_for_id"
  /\ pc = "done"
  /\ responses[1].next_cursor # 0
  /\ Len(requests) = 1
  /\ result = responses[1].ids
  /\ result # <<>>

\* C23: a timeline crawl since id X, run when the API has no tweet newer
\* than X, returns after exactly one request with an empty sequence of
\* tweets; the caller is then back where it started, so that running the
\* crawl again gives the same.
C23_SinceNothingNew ==
  /\ []((method = "get_all_timeline_tweets_for_id_since" /\ since_id >= NewestId
          /\ pc = "done") =>
          /\ Len(requests) = 1
          /\ requests[1].since_id = since_id
          /\ total_length(result) = 0)
  /\ [][(method' = "get_all_timeline_tweets_for_id_since" /\ since_id' >= NewestId
           /\ requests' # requests /\ e' = NoError) =>
          (pc' = "done" /\ Len(requests') = 1)]_vars
  /\ [][(method = "get_all_timeline_tweets_for_id_since" /\ pc = "done") =>
          (pc' = "idle" /\ NoMethod' /\ e' = NoError /\ UNCHANGED <<crawler, quota>>)]_vars

\* The crawl since the newest tweet has returned.
C23_Witness ==
  /\ method = "get_all_timeline_tweets_for_id_since"
  /\ since_id = NewestId
  /\ max_id = None
  /\ pc = "done"
  /\ Len(requests) = 1
  /\ result = <<EmptyPage>>

\* The run before the current one went through the whole list
AfterCompletedRun ==
  /\ previous_run # <<>>
  /\ previous_run[Len(previous_run)] = "completed"
  /\ driver_pc # "none"

\* C24, as stated: a run of the batch after a completed run issues no crawl
\* request.
C24_SecondRunCrawlsNothing == AfterCompletedRun => crawled = <<>>

\* C24, amended: an identity whose new file exists when the loop reaches it
\* is skipped, without a crawl and with the file left as it is; a crawl is
\* started only for an identity that has no new file, and a file changes
\* only when the tweets of the crawl of this turn are saved to it; an
\* identity with an old file and no new file, as one that ended with a 404
\* or 401 in an earlier run, is crawled again.
C24_ExistingFileSkipped ==
  /\ [][(driver_pc = "loop" /\ position <= Len(screen_names)
           /\ new_tweet_files[screen_name] # Absent) =>
          /\ driver_pc' = "loop"
          /\ position' = position + 1
          /\ UNCHANGED <<crawled, new_tweet_files>>]_vars
  /\ [][(crawled' # crawled /\ crawled' # <<>>) =>
          /\ crawled' = Append(crawled, screen_name)
          /\ new_tweet_files[screen_name] = Absent]_vars
  /\ [][\A name \in DOMAIN new_tweet_files :
          new_tweet_files'[name] # new_tweet_files[name] =>
            /\ name = screen_name
            /\ crawled # <<>>
            /\ crawled[Len(crawled)] = name
            /\ new_tweet_files[name] \in {Absent, 0}]_vars
  /\ [][(driver_pc = "loop" /\ position <= Len(screen_names)
           /\ old_tweet_files[screen_name] = "tweets"
           /\ new_tweet_files[screen_name] = Absent) =>
          driver_pc' = "crawl"]_vars

\* A run after a completed run has gone through the list without a crawl,
\* past a file the earlier run had written.
C24_Witness ==
  /\ AfterCompletedRun
  /\ driver_pc = "completed"
  /\ crawled = <<>>
  /\ \E name \in DOMAIN new_tweet_files : new_tweet_files[name] \in CrawlResults

\* C25: in the incremental driver a 404 or 401 raised by the crawl of one
\* identity writes no file for it and the loop goes on with the next
\* identity; only another error of the crawl, or an old file without a
\* first line, ends the run before the end of the list.
C25_EntityUnavailableSkipsIdentity ==
  /\ [][(driver_pc = "crawl" /\ e'.error_code \in {404, 401}) =>
          /\ driver_pc' = "loop"
          /\ position' = position + 1
          /\ UNCHANGED new_tweet_files]_vars
  /\ [][(driver_pc = "crawl" /\ driver_pc' = "aborted") =>
          (e' # NoError /\ e'.error_code \notin {404, 401})]_vars
  /\ [](driver_pc = "completed" => position = Len(screen_names) + 1)

\* A run has reached the end of the list after the crawl of its first
\* identity left no file and the crawl of a later one was saved.
C25_Witness ==
  /\ driver_pc = "completed"
  /\ previous_run = <<>>
  /\ Len(crawled) >= 2
  /\ new_tweet_files[crawled[1]] = Absent
  /\ new_tweet_files[crawled[2]] \in CrawlResults

\* The endpoint objects that count the calls to an endpoint path
trackers_of(p) == {o \in DOMAIN trackers : path_of(o) = p}

\* C26: among the crawler objects built on one client there is at most one
\* quota tracker per endpoint path, so that all calls to an endpoint are
\* counted against a single remaining counter.
C26_OneTrackerPerEndpointPath ==
  \A p \in Paths : Cardinality(trackers_of(p)) <= 1

\* C27: the data requests that crawlers sharing a credential and an
\* endpoint send to it between two window resets never exceed the calls
\* the window granted.
C27_SharedQuotaNotExceeded ==
  \A p \in Paths : data_requests[p] <= MaxRemaining

\* C30: api_calls_remaining never raises, whatever the crawler class, a
\* class that owns a single endpoint included.
C30_ApiCallsRemainingNeverRaises == calls_remaining.raised = ""

\* With one crawler object per endpoint path the window is respected.
OneCrawlerRespectsWindow ==
  C26_OneTrackerPerEndpointPath => C27_SharedQuotaNotExceeded

\* The ids of the tweets the send calls were given, in order
RECURSIVE pushed_ids(_)
pushed_ids(calls) ==
  IF calls = <<>> THEN <<>> ELSE calls[1].tweets \o pushed_ids(Tail(calls))

\* C28: a send of n items in individual mode puts exactly n messages on the
\* queue, one per item and in list order, none for an empty list; a send in
\* bulk mode puts exactly one message on it, which holds all n items, for
\* every n including 0.
C28_PushModes ==
  [][pushed' # pushed =>
       LET call == pushed'[Len(pushed')]
           n == Len(call.tweets)
       IN  IF call.mode = "individual"
             THEN /\ Len(messages') = Len(messages) + n
                  /\ \A i \in 1..n :
                       json_loads(messages'[Len(messages) + i]) = tweet_of(call.tweets[i])
             ELSE /\ Len(messages') = Len(messages) + 1
                  /\ json_loads(messages'[Len(messages')]) = list_of_tweets(call.tweets)]_vars

\* C29: whatever the push mode, get_tweets yields the pushed items one at a
\* time, each decoded equal to the item pushed, in queue order, and does
\* not end before the stream of the consumer does.
C29_RoundTrip ==
  /\ \A i \in 1..Len(yielded) :
       /\ i <= Len(pushed_ids(pushed))
       /\ yielded[i] = tweet_of(pushed_ids(pushed)[i])
  /\ kafka_pc # "get_raised"

\* With a produce that takes the messages of a batch, what was sent in
\* individual mode alone comes back item by item.
IndividualRoundTrip ==
  (produce_api = "messages" /\ \A i \in 1..Len(pushed) : pushed[i].mode = "individual")
    => /\ Len(messages) = Len(pushed_ids(pushed))
       /\ \A i \in 1..Len(yielded) : yielded[i] = tweet_of(pushed_ids(pushed)[i])
       /\ kafka_pc \notin {"send_raised", "get_raised"}

\* The friend-follower id lookups
FriendFollowerLookups == {"get_ff_ids_for_screen_name", "get_ff_ids_for_id"}

\* The ids of a list
ids_in(ids) == {ids[i] : i \in 1..Len(ids)}

ByIdScreenNameLookups ==
  {"get_ff_screen_names_for_id", "get_follower_screen_names_for_id",
   "get_followee_screen_names_for_id"}

\* C32: a by-id screen-name lookup names its target to the id-source
\* endpoint by the user_id parameter, and raises nothing of its own.
C32_ByIdLookupsSendUserId ==
  method \in ByIdScreenNameLookups =>
    /\ e # NameError
    /\ requests # <<>> => requests[1].key = "id"

\* The lookups of FindFollowees
FolloweeLookups ==
  {"get_followee_ids_for_screen_name", "get_followee_ids_for_id",
   "get_followee_screen_names_for_id"}

\* C33: the id requests of the followee crawler go to friends/ids, the
\* endpoint that lists the accounts a user follows, and not to the
\* followers/ids endpoint the follower crawler asks.
C33_FolloweesAskFriendsIds ==
  (method \in FolloweeLookups /\ requests # <<>>) =>
    requests[1].endpoint = "friends/ids"

\* C34: in the incremental driver a crawl error other than 404 and 401
\* aborts the batch: no file is written for the identity, and no later
\* identity of the list is crawled or written in that run.
C34_OtherErrorAbortsBatch ==
  /\ [][(driver_pc = "crawl" /\ e' # NoError /\ e'.error_code \notin {404, 401}) =>
          /\ driver_pc' = "aborted"
          /\ UNCHANGED <<new_tweet_files, position>>]_vars
  /\ [][(driver_pc = "aborted") =>
          /\ UNCHANGED new_tweet_files
          /\ crawled' = <<>>
          /\ Len(previous_run') = Len(previous_run) + 1]_vars

\* The crawl of the first identity has failed with a 500: the run is over,
\* with no file for it nor for the identities after it, which have an old
\* file to start from.
C34_Witness ==
  /\ driver_pc = "aborted"
  /\ e.error_code = 500
  /\ position = 1
  /\ crawled = <<screen_names[1]>>
  /\ \A i \in 1..Len(screen_names) :
       /\ new_tweet_files[screen_names[i]] = Absent
       /\ old_tweet_files[screen_names[i]] = "tweets"

\* C35: the handling of a 502, 503, 504 or of an empty response asks the
\* status endpoint nothing and leaves the count and the end of the window
\* as they were; up to the retried request the quota state changes only in
\* the gate, when no call remains, and by the decrement of the retry.
C35_ServerFailureRetryKeepsQuota ==
  /\ [][(pc \in {"sleep_misbehaving", "sleep_empty"}) =>
          /\ UNCHANGED quota
          /\ sent' = "none"
          /\ pc' = "gate"
          /\ retries' = retries + 1]_vars
  /\ [][(pc = "gate" /\ ~rate_limit_reached(api_calls_remaining_for_current_window)) =>
          /\ UNCHANGED quota
          /\ sent' = "none"
          /\ pc' = "request"]_vars
  /\ [][(pc = "request") =>
          /\ UNCHANGED _current_rate_limit_window_ends
          /\ api_calls_remaining_for_current_window' =
               api_calls_remaining_for_current_window - 1
          /\ sent' = "data"]_vars

\* The first attempt has failed with a 502, 503, 504 or an empty response,
\* the sleep of 60 seconds is over and the retry enters the gate with a call
\* left and a backoff of 120 seconds.
C35_Witness ==
  /\ pc = "gate"
  /\ retries = 1
  /\ backoff = 2 * InitialBackoff
  /\ sent = "none"
  /\ e = NoError
  /\ api_calls_remaining_for_current_window = 1

\* What a range crawl over (s, m] does with its next request, as both
\* methods are to do it: the request carries since_id s and, as max_id, m
\* when no page was fetched yet and the id below the last tweet fetched
\* otherwise; an error ends the crawl and a page is appended, which ends
\* the crawl with all the pages when it is shorter than 100 tweets.
RangeCrawlStep(s, m) ==
  /\ requests' = Append(requests,
                        [count |-> TimelineCount,
                         max_id |-> IF pages = <<>> THEN m ELSE last_tweet_id(pages) - 1,
                         since_id |-> s])
  /\ \/ /\ pc' = "failed"
        /\ e' # NoError
        /\ UNCHANGED <<pages, result>>
     \/ /\ Len(pages') = Len(pages) + 1
        /\ pages = SubSeq(pages', 1, Len(pages))
        /\ e' = e
        /\ pc' = IF pages'[Len(pages')].len < 100 THEN "done" ELSE "crawling"
        /\ result' = IF pc' = "done" THEN pages' ELSE result

\* C36: given a max_id that is not zero, get_all_timeline_tweets_for_id_since
\* and get_all_timeline_tweets_for_id_between_ids are the same function of
\* since_id, max_id and the answers of the API: each request of either is
\* the same function of the arguments and of the pages fetched so far, and
\* so are the end of the crawl and its result.
C36_SinceWithMaxIdIsBetweenIds ==
  /\ [][(/\ method = "get_all_timeline_tweets_for_id_since"
         /\ pc = "crawling"
         /\ requests = <<>> \/ requests[1].max_id # Absent) =>
          RangeCrawlStep(since_id, max_id)]_vars
  /\ [][(/\ method' = "get_all_timeline_tweets_for_id_between_ids"
         /\ requests' # requests) =>
          RangeCrawlStep(since_id', IF pages = <<>> THEN max_id' ELSE max_id)]_vars

\* A since crawl called with max_id 900 has sent two requests, the first
\* with the caller's max_id, and has returned its two pages.
C36_Witness ==
  /\ method = "get_all_timeline_tweets_for_id_since"
  /\ pc = "done"
  /\ Len(requests) = 2
  /\ requests[1].max_id = 900
  /\ requests[2].max_id = pages[1].last - 1
  /\ result = pages

PaginatedCrawls ==
  {"get_all_timeline_tweets_for_id", "get_all_timeline_tweets_for_id_since",
   "get_all_timeline_tweets_for_id_between_ids", "get_all_search_tweets_for_term"}

\* C37: against an API that honours max_id, the max_id values of the
\* successive requests of a timeline or search crawl decrease strictly and
\* never fall below since_id (0 when there is none), and the crawl goes on
\* only after a page that holds a tweet: the crawl ends after finitely many
\* successful requests.
C37_MaxIdDecreasesToTheEnd ==
  method \in PaginatedCrawls =>
    /\ \A i \in 1..Len(requests), j \in 1..Len(requests) :
         (i < j /\ requests[i].max_id # Absent) =>
           /\ requests[j].max_id # Absent
           /\ requests[j].max_id < requests[i].max_id
    /\ \A i \in 2..Len(requests) :
         /\ requests[i].max_id # Absent
         /\ requests[i].max_id >= since_id
         /\ requests[i].max_id < NewestId
    /\ (pc = "crawling" /\ requests # <<>>) =>
         /\ Len(pages) = Len(requests)
         /\ pages[Len(pages)].len >= 1

\* A search crawl called with max_id 900 has ended at its third request,
\* each sent with a smaller max_id than the one before.
C37_Witness ==
  /\ method = "get_all_search_tweets_for_term"
  /\ pc = "done"
  /\ Len(requests) = 3
  /\ requests[1].max_id = 899
  /\ requests[2].max_id = 898
  /\ requests[3].max_id = 897
  /\ pages[3] = EmptyPage

\* C38: when the process is terminated during a run of the batch, a new file
\* that the run has made for the identity it is at holds the whole result of
\* the crawl of that identity, so that the run after it, which skips every
\* identity whose new file exists, skips no identity whose file is cut short.
C38_FileOfTerminatedRunIsComplete ==
  (/\ driver_pc = "terminated"
   /\ position \in 1..Len(screen_names)
   /\ crawled # <<>>
   /\ crawled[Len(crawled)] = screen_name
   /\ new_tweet_files[screen_name] # Absent) =>
    new_tweet_files[screen_name] = tweets

\* C39: a search crawl, however many pages it fetches, leaves the files
\* alone: it creates no file and overwrites none.
C39_SearchCrawlWritesNoFile ==
  [][(method' = "get_all_search_tweets_for_term") => UNCHANGED gz_file]_vars

\* C40: get_list_memberships_for_screen_name hands every error of its
\* lists/memberships request to its caller, a 404 and a 401 as any other,
\* and returns a result only for a request that was answered: no error
\* becomes an empty result.
C40_ListMembershipsRaisesEveryError ==
  /\ [][(method' = "get_list_memberships_for_screen_name" /\ e' # NoError) =>
          /\ pc' = "failed"
          /\ UNCHANGED <<result, responses>>]_vars
  /\ [](method = "get_list_memberships_for_screen_name" =>
          /\ Len(requests) = 1
          /\ requests[1].endpoint = "lists/memberships"
          /\ pc \in {"done", "failed"}
          /\ pc = "done" =>
               /\ e = NoError
               /\ responses # <<>>
               /\ result = responses[1].ids)

\* The lists/memberships request for an identity was answered with a 404,
\* which the caller has got, and no result.
C40_Witness ==
  /\ method = "get_list_memberships_for_screen_name"
  /\ pc = "failed"
  /\ e.error_code = 404
  /\ result = <<>>
  /\ responses = <<>>

====
